---- MODULE Spec2Model ----
(***************************************************************************)
(* Lead pipeline of rgcsekaraa/hackathon (apps/api).                       *)
(*                                                                         *)
(* Each component is modelled with its own specification:                  *)
(*   SpecCall      the live call handler (services/voice/media_stream.py)  *)
(*   SpecLead      the lead lifecycle (services/lead_orchestrator.py and   *)
(*                 routers/leads.py, routers/ws_leads.py)                  *)
(*   SpecRegistry  the connection registry                                 *)
(*                 (services/realtime/connection_manager.py)               *)
(*   SpecClassify  the classifiers (services/ai/langchain_agent.py,        *)
(*                 services/lead_orchestrator.py)                          *)
(*   SpecQuote     calculate_quote                                         *)
(*   SpecRetry     retry_async (core/retry.py)                             *)
(*   SpecDistance  calculate_distance (services/integrations/distance.py)  *)
(*   SpecCache     the tradie profile cache (services/lead_cache.py)       *)
(*   SpecProfile   the cache as load_tradie_context and the profile        *)
(*                 route use it (services/tradie_context.py)               *)
(*   SpecWebhook   the voice webhook (routers/voice.py)                    *)
(*   SpecPhoto     the photo uploads (routers/voice.py, routers/leads.py)  *)
(*   SpecJob       lead creation and the background worker                 *)
(*                 (routers/leads.py, services/workers/lead_worker.py)     *)
(*                                                                         *)
(* Units: confidences are hundredths (0.30 = 30), money is thousandths of   *)
(* a dollar (80.00 = 80000), hours are tenths of an hour, distances are    *)
(* whole kilometres.                                                       *)
(***************************************************************************)
EXTENDS Integers, Sequences, FiniteSets, TLC

\* ------------------------------------------------------------------ bounds

\* Listener callbacks (transcripts and utterance-ends) delivered in one call.
MaxListenerEvents == 3
\* 'start' events accepted on one socket.
MaxStarts == 2
\* Audio chunks the synthesis stream yields for one response.
TtsChunks == 2

\* --------------------------------------------------------- program constants

\* media_stream.py:250  "session.avg_confidence < 0.3"
LowConfidence == 30
\* media_stream.py:120  "len(transcript) < 5"
MinTranscriptLen == 5

\* ------------------------------------------------------------------ inputs

\* A transcript fragment: the length of its (stripped, non-empty) text and its
\* confidence. A short confident one ("ok"), a long doubtful one and a long
\* confident one: two of the first make a transcript long enough to process,
\* the second alone is below the confidence threshold and together with
\* another is above it, the third alone is processed and classified.
Fragments ==
    { [len |-> 2, conf |-> 90], [len |-> 6, conf |-> 10], [len |-> 6, conf |-> 90] }

\* tradie_ctx as handle_media_stream receives it: the loaded profile context, or
\* {} when loading failed (routers/voice.py:221-227). Of its keys only
\* base_address decides a branch of the handler (media_stream.py:276-278).
Contexts == { [base_address |-> TRUE], [base_address |-> FALSE] }

VARIABLES
    \* --- CallSession (media_stream.py:42-64)
    final_transcript,   \* Seq(Fragments): the finals joined by " "
    confidence_sum,
    confidence_count,
    greeting_sent,
    classified,
    is_speaking,
    customer_speaking,
    classification,     \* <<>> (None) or <<[suburb |-> ...]>>
    conversation,       \* Seq of roles
    caller,             \* "unknown" or "phone"
    tradie_ctx,
    \* --- settings
    elevenlabs_api_key, \* BOOLEAN: configured or not
    deepgram_api_key,
    \* --- handle_media_stream locals
    handler,            \* position of the handler coroutine
    exit_path,          \* how the message loop was left
    recognizers,        \* Seq of the states of the recognizers created
    deepgram,           \* index into recognizers of the current one, 0 = None
    response_queue,     \* Seq of [action, data]
    cancel_requested,   \* sender_task.cancel() was called
    listener_events,    \* callbacks delivered so far
    \* --- response_sender task
    sender_task,        \* position of the sender coroutine
    transcript,         \* the transcript argument of _process_and_respond
    gate_low,           \* avg_confidence < 0.3 when that pass began
    tts_ctx,            \* which call of _send_tts_response is running
    tts_mark,           \* fragments in final_transcript when that call began
    sms_task,           \* the photo-link SMS task was created in this pass
    \* --- observations
    audio_out,          \* audio chunks of the current response sent to the caller
    barged,             \* customer_speaking became true during this response
    sms_sent,           \* photo-link SMS dispatched
    classifier_calls,   \* calls of classify_lead
    broadcasts          \* calls of lead_manager.broadcast_new_lead

callVars ==
    << final_transcript, confidence_sum, confidence_count,
       greeting_sent, classified, is_speaking, customer_speaking, classification,
       conversation, caller, tradie_ctx, elevenlabs_api_key, deepgram_api_key,
       handler, exit_path, recognizers, deepgram, response_queue,
       cancel_requested, listener_events, sender_task, transcript, gate_low,
       tts_ctx, tts_mark, sms_task, audio_out, barged, sms_sent,
       classifier_calls, broadcasts >>

VARIABLES
    \* --- tables (models/lead.py) as committed
    lead_sessions,      \* <<>> or <<row>>: the LeadSession row under observation
    quote_line_items,   \* Seq of the QuoteLineItem rows of that lead
    \* --- services/jobs/queue.py
    lead_jobs,          \* lead_enrichment jobs waiting in the queue
    \* --- what clients see
    lead_decided,       \* the lead_decided events broadcast so far
    last_request,       \* which handler ran last
    last_response,      \* HTTP status of the last request
    requests            \* requests and messages handled so far

leadVars ==
    << lead_sessions, quote_line_items, lead_jobs, lead_decided, last_request,
       last_response, requests >>

VARIABLES
    \* --- ConnectionManager (connection_manager.py:24-26)
    connections,        \* the dict _connections, as its entries in insertion order
    sockets,            \* each WebSocket: "new", "open" or "closed"
    \* --- one call of send_to_tradie or broadcast_all
    task_op,            \* "idle", "send", "broadcast", "returned" or "raised"
    task_pos,           \* the dict entry whose list is being iterated, 0 = none
    task_idx,           \* elements of that list the iteration has passed
    task_used,          \* size of the dict when its iteration began
    task_ws,            \* the socket whose send_text is awaited, "" = none
    dead_conns,         \* Seq of <<tradie_id, ws>>: sends that raised
    \* --- observations
    targets,            \* sockets the call should reach: registered when it began
    delivered,          \* sockets that received the event of this call
    calls               \* calls of send_to_tradie and broadcast_all so far

registryVars ==
    << connections, sockets, task_op, task_pos, task_idx, task_used, task_ws,
       dead_conns, targets, delivered, calls >>

VARIABLES
    \* --- one classification (services/ai/langchain_agent.py, lead_orchestrator.py)
    message,            \* the customer text being classified
    openrouter_api_key, \* BOOLEAN: settings.openrouter_api_key is set
    llm_reply,          \* what the provider does for this request
    classify_path,      \* "none" or the function that classified
    classify_result,    \* <<>> or <<what the classifier returned>>
    llm_calls,          \* requests made to the provider
    message_lead        \* <<>> or <<[raised, lead, rows]>>: the lead the message made

classifyVars ==
    << message, openrouter_api_key, llm_reply, classify_path, classify_result,
       llm_calls, message_lead >>

VARIABLES
    \* --- calls of calculate_quote (services/quote_engine.py)
    quote_args,         \* the keyword arguments of the calls
    quote_calls         \* Seq of the QuoteBreakdowns returned for them

quoteVars == << quote_args, quote_calls >>

VARIABLES
    \* --- one call of retry_async (core/retry.py)
    retry_max,          \* max_attempts
    retry_on,           \* retryable_exceptions, as a set of class names
    retry_pos,          \* "idle", "call", "sleep", "returned" or "raised"
    attempt,            \* the loop variable
    last_exc,           \* "" (None) or the class of the exception
    retry_calls,        \* calls of fn so far
    retry_raised,       \* "" or the class of the exception the call raised
    fn_status           \* 0 or the status code of the response to the last call of fn

retryVars ==
    << retry_max, retry_on, retry_pos, attempt, last_exc, retry_calls, retry_raised,
       fn_status >>

VARIABLES
    \* --- one call of calculate_distance (services/integrations/distance.py)
    endpoints,          \* [origin, destination]: BOOLEAN, the string is not blank
    google_maps_api_key,\* BOOLEAN: settings.google_maps_api_key is set
    distance_pos,       \* position of the call
    geocoded,           \* endpoints _geocode_osm has resolved
    distance_result     \* <<>> or <<the provider whose distance was returned>>

distanceVars ==
    << endpoints, google_maps_api_key, distance_pos, geocoded, distance_result >>

VARIABLES
    \* --- the tradie profile cache (services/lead_cache.py, tradie_context.py)
    redis_enabled,      \* settings.redis_enabled
    redis_up,           \* BOOLEAN: the Redis server answers
    redis_client,       \* _redis: FALSE (None) or TRUE (a client)
    cache_rows,         \* the "tradie:<id>" keys of the server: key -> <<>> or <<context>>
    tradie_profile,     \* the profile row of the store: <<>> or <<hourly_rate>>
    cache_last          \* <<>> or <<what the last cache operation did>>

cacheVars ==
    << redis_enabled, redis_up, redis_client, cache_rows, tradie_profile, cache_last >>

VARIABLES
    \* --- one request to POST /voice/webhook (routers/voice.py:279-444)
    wh_pos,             \* position of the handler, "done" or "raised"
    wh_form,            \* [parsed, recording, to]: the form parses, RecordingUrl, To are set
    wh_ctx,             \* <<>> or <<[loaded, by_number, base_address]>>: tradie_ctx
    wh_heard,           \* "" or what _safe_transcribe returned
    wh_suburb,          \* "" or classified.suburb
    wh_sms,             \* "" or the status _send_photo_sms returned
    wh_published,       \* BOOLEAN: the lead was broadcast
    wh_response         \* "" or the TwiML response returned

webhookVars ==
    << wh_pos, wh_form, wh_ctx, wh_heard, wh_suburb, wh_sms, wh_published,
       wh_response >>

VARIABLES
    \* --- photo uploads (routers/voice.py:447-521, routers/leads.py:159-210)
    photo_pos,          \* "idle", or the await the handler is suspended at
    photo_handler,      \* "" or the handler that is running
    photo_events,       \* Seq of the lead_update events broadcast
    photo_response,     \* "" or the status code of the last response
    uploads             \* uploads handled so far

photoVars ==
    << photo_pos, photo_handler, photo_events, photo_response, uploads >>

VARIABLES
    \* --- lead creation and the background worker (routers/leads.py:36-81,
    \*     services/jobs/queue.py, services/workers/lead_worker.py)
    lead_pos,           \* each lead: how far the request that creates it has come
    job_queue,          \* the Redis list jobs:lead_pipeline, oldest job first
    worker_pos,         \* "dequeue", "read" or "process": the await of the worker
    worker_job,         \* "" or the lead_id of the job the worker holds
    jobs_dropped,       \* leads whose job ended with "Lead not found"
    leads_processed     \* leads that went through process_customer_message

jobVars ==
    << lead_pos, job_queue, worker_pos, worker_job, jobs_dropped, leads_processed >>

vars ==
    << callVars, leadVars, registryVars, classifyVars, quoteVars, retryVars,
       distanceVars, cacheVars, webhookVars, photoVars, jobVars >>

\* The other components, which the call handler does not touch.
notCall ==
    << leadVars, registryVars, classifyVars, quoteVars, retryVars,
       distanceVars, cacheVars, webhookVars, photoVars, jobVars >>

\* The other components, which the lead handlers do not touch.
notLead ==
    << callVars, registryVars, classifyVars, quoteVars, retryVars,
       distanceVars, cacheVars, webhookVars, photoVars, jobVars >>

\* The other components, which the registry does not touch.
notRegistry ==
    << callVars, leadVars, classifyVars, quoteVars, retryVars, distanceVars,
       cacheVars, webhookVars, photoVars, jobVars >>

\* The other components, which a classification does not touch.
notClassify ==
    << callVars, leadVars, registryVars, quoteVars, retryVars, distanceVars,
       cacheVars, webhookVars, photoVars, jobVars >>

\* The other components, which calculate_quote does not touch.
notQuote ==
    << callVars, leadVars, registryVars, classifyVars, retryVars,
       distanceVars, cacheVars, webhookVars, photoVars, jobVars >>

\* The other components, which retry_async does not touch.
notRetry ==
    << callVars, leadVars, registryVars, classifyVars, quoteVars,
       distanceVars, cacheVars, webhookVars, photoVars, jobVars >>

\* The other components, which calculate_distance does not touch; retry_async is its callee.
notDistance ==
    << callVars, leadVars, registryVars, classifyVars, quoteVars, cacheVars,
       webhookVars, photoVars, jobVars >>

\* The other components, which the cache operations do not touch.
notCache ==
    << callVars, leadVars, registryVars, classifyVars, quoteVars, retryVars,
       distanceVars, webhookVars, photoVars, jobVars >>

\* The other components, which the voice webhook does not touch.
notWebhook ==
    << callVars, leadVars, registryVars, classifyVars, quoteVars, retryVars,
       distanceVars, cacheVars, photoVars, jobVars >>

\* The other components, which the photo uploads do not touch.
notPhoto ==
    << callVars, leadVars, registryVars, classifyVars, quoteVars, retryVars,
       distanceVars, cacheVars, webhookVars, jobVars >>

\* The other components, which lead creation and the worker do not touch.
notJob ==
    << callVars, leadVars, registryVars, classifyVars, quoteVars, retryVars,
       distanceVars, cacheVars, webhookVars, photoVars >>

\* =========================================================================
\* Call session
\* =========================================================================

RECURSIVE SumLen(_)
SumLen(frags) ==
    IF frags = <<>> THEN 0 ELSE Head(frags).len + SumLen(Tail(frags))

\* len(final_transcript): the fragments joined by single spaces and stripped.
TextLen(frags) ==
    IF frags = <<>> THEN 0 ELSE SumLen(frags) + (Len(frags) - 1)

\* CallSession.avg_confidence compared with a threshold: 0.0 when no final was
\* counted, confidence_sum / confidence_count otherwise.
avg_confidence_below(sum, count, threshold) ==
    IF count = 0 THEN 0 < threshold ELSE sum < threshold * count

SenderTerminal == {"finished", "cancelled"}

ListenerRunning ==
    \E i \in 1..Len(recognizers) : recognizers[i] = "open"

InitCall ==
    /\ final_transcript = <<>>
    /\ confidence_sum = 0
    /\ confidence_count = 0
    /\ greeting_sent = FALSE
    /\ classified = FALSE
    /\ is_speaking = FALSE
    /\ customer_speaking = FALSE
    /\ classification = <<>>
    /\ conversation = <<>>
    /\ caller = "unknown"
    /\ tradie_ctx \in Contexts
    /\ elevenlabs_api_key \in BOOLEAN
    /\ deepgram_api_key \in BOOLEAN
    /\ handler = "loop"
    /\ exit_path = "none"
    /\ recognizers = <<>>
    /\ deepgram = 0
    /\ response_queue = <<>>
    /\ cancel_requested = FALSE
    /\ listener_events = 0
    /\ sender_task = "idle"
    /\ transcript = <<>>
    /\ gate_low = FALSE
    /\ tts_ctx = "none"
    /\ tts_mark = 0
    /\ sms_task = FALSE
    /\ audio_out = 0
    /\ barged = FALSE
    /\ sms_sent = 0
    /\ classifier_calls = 0
    /\ broadcasts = 0


\* ---------------------------------------------------------------- listener
\* DeepgramLiveClient._listen (deepgram_live.py:133-183) calls the two callbacks
\* while the connection is open and not closed.

\* on_transcript (media_stream.py:101-113)
on_transcript(frag, is_final) ==
    /\ ListenerRunning
    /\ listener_events < MaxListenerEvents
    /\ listener_events' = listener_events + 1
    /\ customer_speaking' = TRUE
    /\ barged' = (barged \/ sender_task = "tts")
    /\ IF is_final
         THEN /\ final_transcript' = Append(final_transcript, frag)
              /\ confidence_sum' = confidence_sum + frag.conf
              /\ confidence_count' = confidence_count + 1
         ELSE \* transcript_buffer = text: the buffer is written and never read
              UNCHANGED << final_transcript, confidence_sum, confidence_count >>
    /\ UNCHANGED << greeting_sent, classified, is_speaking, classification,
                    conversation, caller, tradie_ctx, elevenlabs_api_key,
                    deepgram_api_key, handler, exit_path, recognizers, deepgram,
                    response_queue, cancel_requested, sender_task, transcript,
                    gate_low, tts_ctx, tts_mark, sms_task, audio_out,
                    sms_sent, classifier_calls, broadcasts >>
    /\ UNCHANGED notCall

\* on_utterance_end (media_stream.py:115-130)
on_utterance_end ==
    /\ ListenerRunning
    /\ listener_events < MaxListenerEvents
    /\ listener_events' = listener_events + 1
    /\ customer_speaking' = FALSE
    /\ IF TextLen(final_transcript) < MinTranscriptLen \/ classified
         THEN UNCHANGED response_queue
         ELSE response_queue' =
                Append(response_queue, [action |-> "process", data |-> final_transcript])
    /\ UNCHANGED << final_transcript, confidence_sum,
                    confidence_count, greeting_sent, classified, is_speaking,
                    classification, conversation, caller, tradie_ctx,
                    elevenlabs_api_key, deepgram_api_key, handler, exit_path,
                    recognizers, deepgram, cancel_requested, sender_task,
                    transcript, gate_low, tts_ctx, tts_mark, sms_task, audio_out,
                    barged, sms_sent, classifier_calls, broadcasts >>
    /\ UNCHANGED notCall

\* ----------------------------------------------------------------- handler

sessionVars ==
    << final_transcript, confidence_sum, confidence_count,
       classified, is_speaking, customer_speaking, classification, conversation >>

senderVars ==
    << sender_task, transcript, gate_low, tts_ctx, tts_mark, sms_task >>

observed ==
    << audio_out, barged, sms_sent, classifier_calls >>

settingsVars == << tradie_ctx, elevenlabs_api_key, deepgram_api_key >>

\* event == "start" up to the await of deepgram.connect() (media_stream.py:168-187)
StartEvent(from) ==
    /\ handler = "loop"
    /\ Len(recognizers) < MaxStarts
    /\ caller' = from
    /\ recognizers' = Append(recognizers, "created")
    /\ deepgram' = Len(recognizers) + 1
    /\ handler' = "connect"
    /\ UNCHANGED << sessionVars, senderVars, observed, settingsVars, greeting_sent,
                    exit_path, response_queue, cancel_requested, listener_events,
                    broadcasts >>
    /\ UNCHANGED notCall

\* deepgram.connect() returns (deepgram_live.py:57-102): without an API key it
\* returns with no connection; then the greeting is queued (media_stream.py:190-201).
ConnectReturn ==
    /\ handler = "connect"
    /\ recognizers' =
         [recognizers EXCEPT ![deepgram] = IF deepgram_api_key THEN "open" ELSE "nokey"]
    /\ IF greeting_sent
         THEN UNCHANGED response_queue
         ELSE response_queue' =
                Append(response_queue, [action |-> "speak", data |-> <<>>])
    /\ greeting_sent' = TRUE
    /\ handler' = "loop"
    /\ UNCHANGED << sessionVars, senderVars, observed, settingsVars, caller,
                    exit_path, deepgram, cancel_requested, listener_events,
                    broadcasts >>
    /\ UNCHANGED notCall

\* finally: response_queue.put(("stop", None)); sender_task.cancel()
\* (media_stream.py:218-221). The queue is unbounded, so put does not suspend:
\* the handler runs from the exit of the loop to "await sender_task" in one step.
FinallyCancel ==
    /\ response_queue' = Append(response_queue, [action |-> "stop", data |-> <<>>])
    /\ cancel_requested' = TRUE
    /\ handler' = "await_sender"

\* deepgram.connect() raises (deepgram_live.py:103-105), caught at
\* media_stream.py:216.
ConnectFail ==
    /\ handler = "connect"
    /\ deepgram_api_key
    /\ recognizers' = [recognizers EXCEPT ![deepgram] = "failed"]
    /\ exit_path' = "connect_error"
    /\ FinallyCancel
    /\ UNCHANGED << sessionVars, senderVars, observed, settingsVars, greeting_sent,
                    caller, deepgram, listener_events, broadcasts >>
    /\ UNCHANGED notCall

\* The message loop is left: event "stop" (210-212), WebSocketDisconnect
\* (214-215), or any other exception such as a message that is not JSON (216-217).
LeaveLoop(path) ==
    /\ handler = "loop"
    /\ exit_path' = path
    /\ FinallyCancel
    /\ UNCHANGED << sessionVars, senderVars, observed, settingsVars, greeting_sent,
                    caller, recognizers, deepgram, listener_events, broadcasts >>
    /\ UNCHANGED notCall

StopEvent == LeaveLoop("stop")
SocketDisconnect == LeaveLoop("disconnect")
LoopException == LeaveLoop("loop_error")

\* AwaitSender without the "except asyncio.CancelledError": the cancellation of
\* the sender task leaves the handler at "await sender_task".
AwaitSender_CancelNotCaught ==
    /\ handler = "await_sender"
    /\ sender_task \in SenderTerminal
    /\ handler' = IF sender_task = "cancelled" THEN "done" ELSE "close"
    /\ UNCHANGED << sessionVars, senderVars, observed, settingsVars, greeting_sent,
                    caller, exit_path, recognizers, deepgram, response_queue,
                    cancel_requested, listener_events, broadcasts >>
    /\ UNCHANGED notCall

\* await sender_task (media_stream.py:222-225): the task has returned, or it
\* was cancelled and its CancelledError is caught here.
AwaitSender ==
    /\ handler = "await_sender"
    /\ sender_task \in SenderTerminal
    /\ handler' = "close"
    /\ UNCHANGED << sessionVars, senderVars, observed, settingsVars, greeting_sent,
                    caller, exit_path, recognizers, deepgram, response_queue,
                    cancel_requested, listener_events, broadcasts >>
    /\ UNCHANGED notCall

\* if deepgram: await deepgram.close() (media_stream.py:227-228,
\* deepgram_live.py:115-131)
CloseRecognizer ==
    /\ handler = "close"
    /\ recognizers' =
         IF deepgram = 0 THEN recognizers
         ELSE [recognizers EXCEPT ![deepgram] = "closed"]
    /\ handler' = "broadcast"
    /\ UNCHANGED << sessionVars, senderVars, observed, settingsVars, greeting_sent,
                    caller, exit_path, deepgram, response_queue, cancel_requested,
                    listener_events, broadcasts >>
    /\ UNCHANGED notCall

\* if session.classification: await _broadcast_lead(session)
\* (media_stream.py:231-232, 402-439)
BroadcastLead ==
    /\ handler = "broadcast"
    /\ broadcasts' = IF classification # <<>> THEN broadcasts + 1 ELSE broadcasts
    /\ handler' = "done"
    /\ UNCHANGED << sessionVars, senderVars, observed, settingsVars, greeting_sent,
                    caller, exit_path, recognizers, deepgram, response_queue,
                    cancel_requested, listener_events >>
    /\ UNCHANGED notCall


\* ------------------------------------------------------------ sender task
\* response_sender (media_stream.py:136-151) and the two coroutines it awaits.
\* sender_task is the await the task is suspended at:
\*   "idle"      response_queue.get()            (140-142)
\*   "tts"       the next chunk of stream_tts_to_mulaw, in _send_tts_response
\*   "classify"  classify_lead                   (263-265)
\*   "distance"  calculate_distance              (281)
\*   "sms_wait"  sms_task                        (338-342)
\* or how it ended: "finished" (it returned) or "cancelled".

\* _send_tts_response begins (media_stream.py:363-368): without a synthesis key
\* no chunk is streamed and only the mark is sent.
BeginTts(kind) ==
    /\ sender_task' = "tts"
    /\ tts_ctx' = kind
    /\ tts_mark' = Len(final_transcript)
    /\ audio_out' = 0
    /\ is_speaking' = TRUE
    /\ barged' = FALSE

NoTts == UNCHANGED << tts_ctx, tts_mark, audio_out, is_speaking, barged >>

\* Build the acknowledgment (media_stream.py:295-335): the photo-link SMS task
\* is created when the caller is known, and the acknowledgment is spoken.
BuildResponse ==
    /\ sms_task' = (caller # "unknown")
    /\ sms_sent' = IF caller # "unknown" THEN sms_sent + 1 ELSE sms_sent
    /\ BeginTts("ack")

\* SenderTake taking the next entry while the coroutine of the entry before is
\* still awaited: each entry dispatched as it arrives instead of in turn.
SenderTake_Dispatch ==
    /\ sender_task \notin SenderTerminal
    /\ ~cancel_requested
    /\ response_queue # <<>>
    /\ response_queue' = Tail(response_queue)
    /\ LET item == Head(response_queue) IN
         CASE item.action = "speak" ->
                /\ BeginTts("greeting")
                /\ UNCHANGED << transcript, gate_low, classifier_calls >>
           [] item.action = "process" ->
                /\ transcript' = item.data
                /\ gate_low' =
                     avg_confidence_below(confidence_sum, confidence_count, LowConfidence)
                /\ IF /\ avg_confidence_below(confidence_sum, confidence_count,
                                              LowConfidence)
                      /\ confidence_count > 0
                     THEN /\ BeginTts("repeat")
                          /\ UNCHANGED classifier_calls
                     ELSE /\ sender_task' = "classify"
                          /\ classifier_calls' = classifier_calls + 1
                          /\ NoTts
           [] OTHER ->
                /\ sender_task' = "finished"
                /\ NoTts
                /\ UNCHANGED << transcript, gate_low, classifier_calls >>
    /\ UNCHANGED << final_transcript, confidence_sum,
                    confidence_count, greeting_sent, classified, customer_speaking,
                    classification, conversation, caller, settingsVars, handler,
                    exit_path, recognizers, deepgram, cancel_requested,
                    listener_events, sms_task, sms_sent, broadcasts >>
    /\ UNCHANGED notCall

\* The task takes the next queue entry (media_stream.py:140-151); for "process"
\* this runs _process_and_respond up to its first await (249-265).
SenderTake ==
    /\ sender_task = "idle"
    /\ ~cancel_requested
    /\ response_queue # <<>>
    /\ response_queue' = Tail(response_queue)
    /\ LET item == Head(response_queue) IN
         CASE item.action = "speak" ->
                /\ BeginTts("greeting")
                /\ UNCHANGED << transcript, gate_low, classifier_calls >>
           [] item.action = "process" ->
                /\ transcript' = item.data
                /\ gate_low' =
                     avg_confidence_below(confidence_sum, confidence_count, LowConfidence)
                /\ IF /\ avg_confidence_below(confidence_sum, confidence_count,
                                              LowConfidence)
                      /\ confidence_count > 0
                     THEN /\ BeginTts("repeat")
                          /\ UNCHANGED classifier_calls
                     ELSE /\ sender_task' = "classify"
                          /\ classifier_calls' = classifier_calls + 1
                          /\ NoTts
           [] OTHER ->
                /\ sender_task' = "finished"
                /\ NoTts
                /\ UNCHANGED << transcript, gate_low, classifier_calls >>
    /\ UNCHANGED << final_transcript, confidence_sum,
                    confidence_count, greeting_sent, classified, customer_speaking,
                    classification, conversation, caller, settingsVars, handler,
                    exit_path, recognizers, deepgram, cancel_requested,
                    listener_events, sms_task, sms_sent, broadcasts >>
    /\ UNCHANGED notCall

\* asyncio.TimeoutError after 120 s without a queue entry: break
\* (media_stream.py:143-144).
SenderTimeout ==
    /\ sender_task = "idle"
    /\ ~cancel_requested
    /\ response_queue = <<>>
    /\ sender_task' = "finished"
    /\ UNCHANGED << sessionVars, observed, settingsVars, greeting_sent, caller,
                    handler, exit_path, recognizers, deepgram, response_queue,
                    cancel_requested, listener_events, transcript, gate_low,
                    tts_ctx, tts_mark, sms_task, broadcasts >>
    /\ UNCHANGED notCall

\* What follows the return of _send_tts_response, by its call site. When the
\* pass of _process_and_respond returns, its locals are gone.
AfterTts ==
    /\ is_speaking' = FALSE
    /\ CASE tts_ctx = "greeting" ->
              \* media_stream.py:147
              /\ sender_task' = "idle"
              /\ UNCHANGED << final_transcript, confidence_sum, confidence_count,
                              conversation, sms_task, transcript, gate_low >>
         [] tts_ctx = "repeat" ->
              \* media_stream.py:256-259
              /\ final_transcript' = <<>>
              /\ confidence_sum' = 0
              /\ confidence_count' = 0
              /\ sender_task' = "idle"
              /\ transcript' = <<>>
              /\ gate_low' = FALSE
              /\ UNCHANGED << conversation, sms_task >>
         [] tts_ctx = "decline" ->
              \* media_stream.py:290-291
              /\ sender_task' = "idle"
              /\ transcript' = <<>>
              /\ gate_low' = FALSE
              /\ UNCHANGED << final_transcript, confidence_sum, confidence_count,
                              conversation, sms_task >>
         [] tts_ctx = "ack" /\ sms_task ->
              \* media_stream.py:338-340
              /\ sender_task' = "sms_wait"
              /\ UNCHANGED << final_transcript, confidence_sum, confidence_count,
                              conversation, sms_task, transcript, gate_low >>
         [] tts_ctx = "ack" /\ ~sms_task ->
              \* media_stream.py:345-354
              /\ conversation' = conversation \o << "customer", "assistant" >>
              /\ sender_task' = "idle"
              /\ transcript' = <<>>
              /\ gate_low' = FALSE
              /\ UNCHANGED << final_transcript, confidence_sum, confidence_count,
                              sms_task >>

\* The synthesis stream yields a chunk (media_stream.py:368-383): the barge-in
\* check, then the chunk is sent, or the loop is left and the mark is sent.
TtsChunk ==
    /\ sender_task = "tts"
    /\ ~cancel_requested
    /\ elevenlabs_api_key
    /\ audio_out < TtsChunks
    /\ IF customer_speaking
         THEN /\ AfterTts
              /\ UNCHANGED audio_out
         ELSE /\ audio_out' = audio_out + 1
              /\ UNCHANGED << final_transcript, confidence_sum, confidence_count,
                              conversation, sms_task, is_speaking, sender_task,
                              transcript, gate_low >>
    /\ UNCHANGED << greeting_sent, classified, customer_speaking,
                    classification, caller, settingsVars, handler, exit_path,
                    recognizers, deepgram, response_queue, cancel_requested,
                    listener_events, tts_ctx, tts_mark, barged, sms_sent, classifier_calls,
                    broadcasts >>
    /\ UNCHANGED notCall

\* The stream ends: after its last chunk, or earlier when the provider fails
\* (tts_stream.py:103-104 logs and ends the generator) or when send_json raises
\* (media_stream.py:396-399).
TtsEnd ==
    /\ sender_task = "tts"
    /\ ~cancel_requested
    /\ AfterTts
    /\ UNCHANGED << greeting_sent, classified, customer_speaking,
                    classification, caller, settingsVars, handler, exit_path,
                    recognizers, deepgram, response_queue, cancel_requested,
                    listener_events, tts_ctx, tts_mark, audio_out, barged, sms_sent,
                    classifier_calls, broadcasts >>
    /\ UNCHANGED notCall

\* classify_lead returns (it falls back itself, langchain_agent.py:89-94); the
\* result is stored and the service area is checked (media_stream.py:270-281).
ClassifyReturn(suburb) ==
    /\ sender_task = "classify"
    /\ ~cancel_requested
    /\ classification' = << [suburb |-> suburb] >>
    /\ classified' = TRUE
    /\ IF suburb # "unknown" /\ tradie_ctx.base_address
         THEN /\ sender_task' = "distance"
              /\ NoTts
              /\ UNCHANGED << sms_task, sms_sent >>
         ELSE BuildResponse
    /\ UNCHANGED << final_transcript, confidence_sum,
                    confidence_count, greeting_sent, customer_speaking,
                    conversation, caller, settingsVars, handler, exit_path,
                    recognizers, deepgram, response_queue, cancel_requested,
                    listener_events, transcript, gate_low, classifier_calls,
                    broadcasts >>
    /\ UNCHANGED notCall

\* calculate_distance returns or raises (media_stream.py:281-293): beyond the
\* radius the decline is spoken, otherwise, and on any exception, the pass goes on.
DistanceReturn(outcome) ==
    /\ sender_task = "distance"
    /\ ~cancel_requested
    /\ IF outcome = "outside"
         THEN /\ BeginTts("decline")
              /\ UNCHANGED << sms_task, sms_sent >>
         ELSE BuildResponse
    /\ UNCHANGED << final_transcript, confidence_sum,
                    confidence_count, greeting_sent, classified, customer_speaking,
                    classification, conversation, caller, settingsVars, handler,
                    exit_path, recognizers, deepgram, response_queue,
                    cancel_requested, listener_events, transcript, gate_low,
                    classifier_calls, broadcasts >>
    /\ UNCHANGED notCall

\* sms_task is done (media_stream.py:338-354)
SmsDone ==
    /\ sender_task = "sms_wait"
    /\ ~cancel_requested
    /\ conversation' = conversation \o << "customer", "assistant" >>
    /\ sender_task' = "idle"
    /\ transcript' = <<>>
    /\ gate_low' = FALSE
    /\ sms_task' = FALSE
    /\ UNCHANGED << final_transcript, confidence_sum,
                    confidence_count, greeting_sent, classified, is_speaking,
                    customer_speaking, classification, caller, settingsVars,
                    handler, exit_path, recognizers, deepgram, response_queue,
                    cancel_requested, listener_events, tts_ctx, tts_mark, observed,
                    broadcasts >>
    /\ UNCHANGED notCall

\* CancelledError is thrown into the task at the await it is suspended at; no
\* handler of the task catches it (they catch Exception), the finally of
\* _send_tts_response (398-399) runs.
SenderCancelled ==
    /\ cancel_requested
    /\ sender_task \notin SenderTerminal
    /\ sender_task' = "cancelled"
    /\ is_speaking' = FALSE
    /\ UNCHANGED << final_transcript, confidence_sum,
                    confidence_count, greeting_sent, classified, customer_speaking,
                    classification, conversation, caller, settingsVars, handler,
                    exit_path, recognizers, deepgram, response_queue,
                    cancel_requested, listener_events, transcript, gate_low,
                    tts_ctx, tts_mark, sms_task, observed, broadcasts >>
    /\ UNCHANGED notCall

NextCall ==
    \/ \E frag \in Fragments, is_final \in BOOLEAN : on_transcript(frag, is_final)
    \/ on_utterance_end
    \/ \E from \in {"unknown", "phone"} : StartEvent(from)
    \/ ConnectReturn
    \/ ConnectFail
    \/ StopEvent
    \/ SocketDisconnect
    \/ LoopException
    \/ AwaitSender
    \/ CloseRecognizer
    \/ BroadcastLead
    \/ SenderTake
    \/ SenderTimeout
    \/ TtsChunk
    \/ TtsEnd
    \/ \E suburb \in {"unknown", "Robina"} : ClassifyReturn(suburb)
    \/ \E outcome \in {"inside", "outside", "error"} : DistanceReturn(outcome)
    \/ SmsDone
    \/ SenderCancelled


\* =========================================================================
\* Lead lifecycle
\* =========================================================================

\* ------------------------------------------------------------------ bounds

\* Requests (HTTP requests, WebSocket messages, worker jobs) handled in a run.
MaxRequests == 3

\* ------------------------------------------------------------------ inputs

\* Users with a UserProfile row, and one without.
Profiles == {"alice", "bob"}
Users == Profiles \cup {"carol"}

\* The UserProfile row of a lead's owner: the column defaults of
\* models/lead.py:54-64.
Profile ==
    [ base_callout_fee |-> 80000, hourly_rate |-> 95000, markup_pct |-> 15,
      min_labour_hours |-> 10, service_radius_km |-> 30,
      travel_rate_per_km |-> 1500 ]

\* job_type values the classifier returns ("" when the answer has none).
JobTypes == {"", "pipe_burst", "general_plumbing"}

\* A classifier answer with that job type: the dict classify_lead_text returns
\* (lead_orchestrator.py:53-91), of which job_type and urgency are kept; ""
\* stands for a key the answer does not have.
ClassifiedAs(job_type) ==
    [ job_type |-> job_type,
      urgency |-> CASE job_type = "pipe_burst" -> "emergency"
                    [] job_type = "" -> ""
                    [] OTHER -> "flexible" ]

\* What calculate_distance does: it returns a distance or raises.
DistanceResults ==
    { [ok |-> TRUE, km |-> d] : d \in {0, 8, 60} } \cup { [ok |-> FALSE, km |-> 0] }

\* The total of the quote a tradie sends back with an "edit" decision.
EditedQuotes == { <<>>, << 250000 >> }

\* TradieDecision bodies (schemas/lead.py:162-168).
Decisions ==
    { [decision |-> "approve", booked_date |-> d, booked_time_slot |-> t,
       edited_quote |-> <<>>] : d \in BOOLEAN, t \in BOOLEAN }
    \cup { [decision |-> "edit", booked_date |-> FALSE, booked_time_slot |-> FALSE,
            edited_quote |-> q] : q \in EditedQuotes }
    \cup { [decision |-> "reject", booked_date |-> FALSE, booked_time_slot |-> FALSE,
            edited_quote |-> <<>>] }

\* ------------------------------------------------------------ quote engine

\* round(): n / d rounded to the nearest integer, ties to even.
RoundHalfEven(n, d) ==
    LET q == n \div d
        r == n % d
    IN  IF 2 * r < d THEN q
        ELSE IF 2 * r > d THEN q + 1
        ELSE IF q % 2 = 0 THEN q ELSE q + 1

\* round(x, 2) of the amount n / d: a whole number of cents.
Round2(n, d) == 10 * RoundHalfEven(n, 10 * d)

RECURSIVE SumTotals(_)
SumTotals(items) ==
    IF items = <<>> THEN 0 ELSE Head(items).total + SumTotals(Tail(items))

\* calculate_quote (quote_engine.py:14-99), include_gst left at its default.
calculate_quote(callout_fee, hourly_rate, min_labour_hours, estimated_hours, parts_cost, markup_pct, distance_km, travel_rate_per_km) ==
    LET labour_hours ==
            IF min_labour_hours > estimated_hours
              THEN min_labour_hours ELSE estimated_hours
        callout == << [category |-> "callout", total |-> callout_fee] >>
        labour ==
            << [category |-> "labour",
                total |-> Round2(labour_hours * hourly_rate, 10)] >>
        parts ==
            IF parts_cost > 0
              THEN << [category |-> "parts",
                       total |-> Round2(parts_cost * (100 + markup_pct), 100)] >>
              ELSE <<>>
        travel ==
            IF distance_km > 0 /\ travel_rate_per_km > 0
              THEN << [category |-> "travel",
                       total |-> Round2(distance_km * travel_rate_per_km, 1)] >>
              ELSE <<>>
        items == callout \o labour \o parts \o travel
        subtotal == Round2(SumTotals(items), 1)
        gst == Round2(subtotal, 10)
    IN  [ line_items |-> Append(items, [category |-> "gst", total |-> gst]),
          subtotal |-> subtotal,
          gst |-> gst,
          total |-> Round2(subtotal + gst, 1) ]

\* estimate_labour_hours (quote_engine.py:107-124)
estimate_labour_hours(job_type) ==
    CASE job_type = "pipe_burst" -> 20
      [] job_type = "general_plumbing" -> 15
      [] OTHER -> 15

\* The parts price process_customer_message finds without a photo analysis
\* (lead_orchestrator.py:254-275): job_to_sku, then the cached catalogue
\* (integrations/pricing.py:54, 71-93); 0.0 when the job type has no SKU.
parts_price(job_type) ==
    IF job_type = "pipe_burst" THEN 22000 ELSE 0


\* -------------------------------------------------------- lead orchestrator

\* create_lead (lead_orchestrator.py:144-167): the new row, with the column
\* defaults of models/lead.py:102-125 for what it does not set.
create_lead(user_profile_id, customer_phone) ==
    [ status |-> "new",
      user_profile_id |-> user_profile_id,
      customer_phone |-> customer_phone,
      job_type |-> "",
      urgency |-> "flexible",
      distance_km |-> <<>>,
      quote_snapshot |-> <<>>,
      quote_total |-> <<>>,
      tradie_edited_quote |-> <<>>,
      tradie_decision |-> "none",
      booked_date |-> FALSE,
      booked_time_slot |-> FALSE,
      conversation |-> << "customer" >> ]

\* process_customer_message (lead_orchestrator.py:170-347) on the row `lead`,
\* with the classifier's answer cls and the outcome of calculate_distance. The
\* result is the row as the function leaves it, the QuoteLineItem rows it adds,
\* and whether it raised (calculate_distance raising at line 276).
process_customer_message(lead, cls, dist) ==
    LET described ==
            [lead EXCEPT !.conversation = Append(@, "customer"),
                         !.job_type = IF cls.job_type # "" THEN cls.job_type ELSE @,
                         !.urgency = IF cls.urgency # "" THEN cls.urgency ELSE @,
                         !.status = "details_collected"]
        offered ==
            IF described.customer_phone
              THEN [described EXCEPT !.status = "media_pending"]
              ELSE described
        pricing == [offered EXCEPT !.status = "pricing"]
        quote ==
            calculate_quote(Profile.base_callout_fee, Profile.hourly_rate,
                            Profile.min_labour_hours,
                            estimate_labour_hours(pricing.job_type),
                            parts_price(pricing.job_type), Profile.markup_pct,
                            dist.km, Profile.travel_rate_per_km)
    IN  IF ~dist.ok
          THEN [raised |-> TRUE, lead |-> pricing, rows |-> <<>>]
          ELSE [raised |-> FALSE,
                lead |-> [pricing EXCEPT
                            !.distance_km = << dist.km >>,
                            !.quote_snapshot = << [subtotal |-> quote.subtotal,
                                                  gst |-> quote.gst,
                                                  total |-> quote.total] >>,
                            !.quote_total = << quote.total >>,
                            !.status = "tradie_review",
                            !.conversation = Append(@, "assistant")],
                rows |-> quote.line_items]

\* handle_tradie_decision booking when a date or a time slot is supplied, where
\* the code asks for both (lead_orchestrator.py:365).
handle_tradie_decision_BookOnEither(lead, decision) ==
    LET decided == [lead EXCEPT !.tradie_decision = decision.decision]
    IN  CASE decision.decision = "approve" ->
               IF decision.booked_date \/ decision.booked_time_slot
                 THEN [decided EXCEPT !.booked_date = decision.booked_date,
                                      !.booked_time_slot = decision.booked_time_slot,
                                      !.status = "booked"]
                 ELSE [decided EXCEPT !.status = "confirmed"]
          [] decision.decision = "edit" ->
               IF decision.edited_quote # <<>>
                 THEN [decided EXCEPT !.tradie_edited_quote = decision.edited_quote,
                                      !.quote_total = decision.edited_quote,
                                      !.status = "tradie_review"]
                 ELSE [decided EXCEPT !.status = "tradie_review"]
          [] decision.decision = "reject" ->
               [decided EXCEPT !.status = "rejected"]

\* handle_tradie_decision storing the edited quote without taking its total
\* as quote_total (lead_orchestrator.py:396).
handle_tradie_decision_EditKeepsTotal(lead, decision) ==
    LET decided == [lead EXCEPT !.tradie_decision = decision.decision]
    IN  CASE decision.decision = "approve" ->
               IF decision.booked_date /\ decision.booked_time_slot
                 THEN [decided EXCEPT !.booked_date = decision.booked_date,
                                      !.booked_time_slot = decision.booked_time_slot,
                                      !.status = "booked"]
                 ELSE [decided EXCEPT !.status = "confirmed"]
          [] decision.decision = "edit" ->
               IF decision.edited_quote # <<>>
                 THEN [decided EXCEPT !.tradie_edited_quote = decision.edited_quote,
                                      !.status = "tradie_review"]
                 ELSE [decided EXCEPT !.status = "tradie_review"]
          [] decision.decision = "reject" ->
               [decided EXCEPT !.status = "rejected"]

\* handle_tradie_decision (lead_orchestrator.py:350-420). booked_date and
\* booked_time_slot are TRUE for a non-empty string, FALSE for None or "".
handle_tradie_decision(lead, decision) ==
    LET decided == [lead EXCEPT !.tradie_decision = decision.decision]
    IN  CASE decision.decision = "approve" ->
               IF decision.booked_date /\ decision.booked_time_slot
                 THEN [decided EXCEPT !.booked_date = decision.booked_date,
                                      !.booked_time_slot = decision.booked_time_slot,
                                      !.status = "booked"]
                 ELSE [decided EXCEPT !.status = "confirmed"]
          [] decision.decision = "edit" ->
               IF decision.edited_quote # <<>>
                 THEN [decided EXCEPT !.tradie_edited_quote = decision.edited_quote,
                                      !.quote_total = decision.edited_quote,
                                      !.status = "tradie_review"]
                 ELSE [decided EXCEPT !.status = "tradie_review"]
          [] decision.decision = "reject" ->
               [decided EXCEPT !.status = "rejected"]


\* ------------------------------------------------------------ lead handlers
\* Each request runs in its own database session (db/session.py:22-30): what it
\* did is committed when it returns and rolled back when it raises.

InitLead ==
    /\ lead_sessions = <<>>
    /\ quote_line_items = <<>>
    /\ lead_jobs = 0
    /\ lead_decided = {}
    /\ last_request = "none"
    /\ last_response = "none"
    /\ requests = 0

\* POST /leads (routers/leads.py:36-81). queued is what enqueue_lead_processing
\* returns: FALSE when the job queue is unavailable (services/jobs/queue.py:40-50).
create_new_lead(user, customer_phone, job_type, dist, queued) ==
    /\ requests < MaxRequests
    /\ lead_sessions = <<>>
    /\ requests' = requests + 1
    /\ last_request' = "create"
    /\ IF user \notin Profiles
         THEN /\ last_response' = "400"
              /\ UNCHANGED << lead_sessions, quote_line_items, lead_jobs >>
         ELSE LET lead == [create_lead(user, customer_phone)
                             EXCEPT !.status = "details_collected"]
                  done == process_customer_message(lead, ClassifiedAs(job_type), dist)
              IN  IF queued
                    THEN /\ lead_sessions' = << lead >>
                         /\ lead_jobs' = lead_jobs + 1
                         /\ last_response' = "201"
                         /\ UNCHANGED quote_line_items
                    ELSE IF done.raised
                      THEN /\ last_response' = "500"
                           /\ UNCHANGED << lead_sessions, quote_line_items, lead_jobs >>
                      ELSE /\ lead_sessions' = << done.lead >>
                           /\ quote_line_items' = quote_line_items \o done.rows
                           /\ last_response' = "201"
                           /\ UNCHANGED lead_jobs
    /\ UNCHANGED lead_decided
    /\ UNCHANGED notLead

\* POST /leads/{lead_id}/message (routers/leads.py:120-156)
send_customer_message(job_type, dist, queued) ==
    /\ requests < MaxRequests
    /\ requests' = requests + 1
    /\ last_request' = "message"
    /\ IF lead_sessions = <<>>
         THEN /\ last_response' = "404"
              /\ UNCHANGED << lead_sessions, quote_line_items, lead_jobs >>
         ELSE LET lead == lead_sessions[1]
                  done == process_customer_message(lead, ClassifiedAs(job_type), dist)
              IN  IF queued
                    THEN /\ lead_sessions' =
                              << [lead EXCEPT !.status = "details_collected"] >>
                         /\ lead_jobs' = lead_jobs + 1
                         /\ last_response' = "200"
                         /\ UNCHANGED quote_line_items
                    ELSE IF done.raised
                      THEN /\ last_response' = "500"
                           /\ UNCHANGED << lead_sessions, quote_line_items, lead_jobs >>
                      ELSE /\ lead_sessions' = << done.lead >>
                           /\ quote_line_items' = quote_line_items \o done.rows
                           /\ last_response' = "200"
                           /\ UNCHANGED lead_jobs
    /\ UNCHANGED lead_decided
    /\ UNCHANGED notLead

\* The worker takes a lead_enrichment job (workers/lead_worker.py:64-88,
\* 123-140): an exception rolls its session back and the job is gone.
process_lead_enrichment(job_type, dist) ==
    /\ lead_jobs > 0
    /\ lead_jobs' = lead_jobs - 1
    /\ IF lead_sessions = <<>>
         THEN UNCHANGED << lead_sessions, quote_line_items >>
         ELSE LET done == process_customer_message(lead_sessions[1], ClassifiedAs(job_type), dist)
              IN  IF done.raised
                    THEN UNCHANGED << lead_sessions, quote_line_items >>
                    ELSE /\ lead_sessions' = << done.lead >>
                         /\ quote_line_items' = quote_line_items \o done.rows
    /\ last_request' = "job"
    /\ UNCHANGED << lead_decided, last_response, requests >>
    /\ UNCHANGED notLead

\* PATCH /leads/{lead_id}/decision (routers/leads.py:213-244)
submit_tradie_decision(user, decision) ==
    /\ requests < MaxRequests
    /\ requests' = requests + 1
    /\ last_request' = "decision"
    /\ IF lead_sessions = <<>>
         THEN /\ last_response' = "404"
              /\ UNCHANGED << lead_sessions, lead_decided >>
         ELSE IF lead_sessions[1].user_profile_id # user
           THEN /\ last_response' = "403"
                /\ UNCHANGED << lead_sessions, lead_decided >>
           ELSE /\ lead_sessions' =
                     << handle_tradie_decision(lead_sessions[1], decision) >>
                /\ lead_decided' =
                     lead_decided \cup
                       { [decision |-> decision.decision, decided_by |-> user] }
                /\ last_response' = "200"
    /\ UNCHANGED << quote_line_items, lead_jobs >>
    /\ UNCHANGED notLead

\* A 'decide' message on /ws/leads (routers/ws_leads.py:64-80) from the client
\* authenticated as tradie_id, about the lead under observation, whose id it
\* learnt from a broadcast.
websocket_leads_decide(tradie_id, decision) ==
    /\ requests < MaxRequests
    /\ lead_sessions # <<>>
    /\ requests' = requests + 1
    /\ last_request' = "decide"
    /\ lead_decided' =
         lead_decided \cup { [decision |-> decision, decided_by |-> tradie_id] }
    /\ UNCHANGED << lead_sessions, quote_line_items, lead_jobs, last_response >>
    /\ UNCHANGED notLead

NextLead ==
    \/ \E user \in Users, customer_phone \in BOOLEAN, job_type \in JobTypes,
          dist \in DistanceResults, queued \in BOOLEAN :
         create_new_lead(user, customer_phone, job_type, dist, queued)
    \/ \E job_type \in JobTypes, dist \in DistanceResults, queued \in BOOLEAN :
         send_customer_message(job_type, dist, queued)
    \/ \E job_type \in JobTypes, dist \in DistanceResults :
         process_lead_enrichment(job_type, dist)
    \/ \E user \in Users, decision \in Decisions :
         submit_tradie_decision(user, decision)
    \/ \E tradie_id \in Users, decision \in {"approve", "reject"} :
         websocket_leads_decide(tradie_id, decision)

\* =========================================================================
\* Classifier
\* =========================================================================

\* ------------------------------------------------------------------ inputs

\* Customer messages: the burst-pipe message, one with no keyword at all, and
\* others that reach the branches of the two keyword classifiers.
Texts ==
    { "burst pipe, water everywhere, 8 Example St",
      "Hello there",
      "my tap is dripping",
      "need someone today",
      "i dont know",
      "toilet wont flush, sometime this week",
      "x" }

\* What the model provider does for one request: it fails (HTTP error, timeout,
\* library missing), or it answers with text that is not JSON, with a JSON
\* list, or with a JSON object; job_type and urgency are the values of those
\* keys of the object, "" for a key it does not have.
LlmReplies ==
    { [kind |-> "error", job_type |-> "", urgency |-> ""],
      [kind |-> "not_json", job_type |-> "", urgency |-> ""],
      [kind |-> "list", job_type |-> "", urgency |-> ""] }
    \cup { [kind |-> "dict", job_type |-> j, urgency |-> u] :
             j \in {"", "pipe_burst", "sewer_inspection"},
             u \in {"", "emergency", "whenever"} }

\* The closed set of job types: the keys of _JOB_KEYWORDS
\* (langchain_agent.py:229-243).
JobTypeSet ==
    { "tap_repair", "tap_replacement", "toilet_repair", "toilet_replacement",
      "blocked_drain", "hot_water_repair", "hot_water_replacement", "leak_repair",
      "pipe_burst", "gas_fitting", "roof_plumbing", "bathroom_reno",
      "general_plumbing" }

\* UrgencyLevel (models/lead.py:32-37)
UrgencyLevel == { "emergency", "today", "tomorrow", "this_week", "flexible" }

\* ----------------------------------------------------------------- strings

UpperCase == "ABCDEFGHIJKLMNOPQRSTUVWXYZ"
LowerCase == "abcdefghijklmnopqrstuvwxyz"

\* str.lower(), for the ASCII letters.
RECURSIVE Lower(_)
Lower(text) ==
    IF Len(text) = 0 THEN ""
    ELSE LET c == SubSeq(text, 1, 1)
             up == { i \in 1..Len(UpperCase) : SubSeq(UpperCase, i, i) = c }
         IN  (IF up = {} THEN c
              ELSE LET i == CHOOSE k \in up : TRUE IN SubSeq(LowerCase, i, i))
               \o Lower(SubSeq(text, 2, Len(text)))

\* "kw in text": kw occurs in text as a substring.
In(kw, text) ==
    \E i \in 1..(Len(text) - Len(kw) + 1) : SubSeq(text, i, i + Len(kw) - 1) = kw

\* any(kw in text for kw in keywords)
AnyIn(keywords, text) == \E kw \in keywords : In(kw, text)

\* "for key, keywords in table.items(): if any(...): value = key; break": the
\* key of the first entry of the table with a keyword in text, or the default.
RECURSIVE FirstMatch(_, _, _)
FirstMatch(table, text, default) ==
    IF table = <<>> THEN default
    ELSE IF AnyIn(Head(table).keywords, text) THEN Head(table).key
    ELSE FirstMatch(Tail(table), text, default)

\* ------------------------------------------- keyword classifier of the agent

\* _JOB_KEYWORDS (langchain_agent.py:229-243), in the order of the dict.
JOB_KEYWORDS ==
    << [key |-> "tap_repair", keywords |-> {"tap", "faucet", "drip", "dripping", "washer"}],
       [key |-> "tap_replacement", keywords |-> {"replace tap", "new tap", "new faucet"}],
       [key |-> "toilet_repair", keywords |-> {"toilet", "cistern", "flush", "running toilet"}],
       [key |-> "toilet_replacement", keywords |-> {"replace toilet", "new toilet"}],
       [key |-> "blocked_drain", keywords |-> {"blocked", "clogged", "drain", "slow drain", "backed up"}],
       [key |-> "hot_water_repair", keywords |-> {"hot water", "no hot water", "warm water", "lukewarm"}],
       [key |-> "hot_water_replacement", keywords |-> {"replace hot water", "new hot water system"}],
       [key |-> "leak_repair", keywords |-> {"leak", "leaking", "water damage", "drip"}],
       [key |-> "pipe_burst", keywords |-> {"burst", "broken pipe", "flooding", "water everywhere"}],
       [key |-> "gas_fitting", keywords |-> {"gas", "gas leak", "gas fitting", "gas hot water"}],
       [key |-> "roof_plumbing", keywords |-> {"roof", "gutter", "downpipe", "guttering"}],
       [key |-> "bathroom_reno", keywords |-> {"renovation", "reno", "bathroom reno", "remodel"}],
       [key |-> "general_plumbing", keywords |-> {"plumber", "plumbing"}] >>

\* _URGENCY_KEYWORDS (langchain_agent.py:245-250), in the order of the dict.
URGENCY_KEYWORDS ==
    << [key |-> "emergency",
        keywords |-> {"emergency", "flood", "flooding", "burst", "gas leak", "urgent", "asap", "now"}],
       [key |-> "urgent", keywords |-> {"today", "same day", "can't wait", "really need"}],
       [key |-> "standard", keywords |-> {"this week", "soon", "couple of days"}],
       [key |-> "flexible", keywords |-> {"no rush", "whenever", "next week", "quote", "estimate"}] >>

\* _fallback_classify of the agent (langchain_agent.py:260-292): job_type and
\* urgency of the ClassifiedLead it returns.
agent_fallback_classify(text) ==
    [ job_type |-> FirstMatch(JOB_KEYWORDS, Lower(text), "general_plumbing"),
      urgency |-> FirstMatch(URGENCY_KEYWORDS, Lower(text), "standard") ]

\* classify_lead (langchain_agent.py:51-94): without a key, and on any
\* exception, the keyword classifier; otherwise ClassifiedLead(**result), whose
\* job_type is required and whose urgency defaults to "standard" (29-36). A
\* result that is not an object makes ClassifiedLead(**result) raise.
classify_lead(text, key, reply) ==
    IF ~key \/ reply.kind # "dict" \/ reply.job_type = ""
      THEN agent_fallback_classify(text)
      ELSE [ job_type |-> reply.job_type,
             urgency |-> IF reply.urgency = "" THEN "standard" ELSE reply.urgency ]

\* ------------------------------------ keyword classifier of the orchestrator

\* _fallback_classify of the orchestrator (lead_orchestrator.py:94-137): the
\* dict it returns, of which job_type and urgency are kept.
orchestrator_fallback_classify(text) ==
    LET text_lower == Lower(text) IN
    [ shape |-> "dict",
      job_type |->
        IF AnyIn({"tap", "faucet", "mixer"}, text_lower)
          THEN (IF AnyIn({"fix", "leak", "repair"}, text_lower)
                  THEN "tap_repair" ELSE "tap_replacement")
        ELSE IF AnyIn({"toilet", "loo", "dunny"}, text_lower) THEN "toilet_repair"
        ELSE IF AnyIn({"drain", "blocked", "clog"}, text_lower) THEN "blocked_drain"
        ELSE IF AnyIn({"hot water", "heater"}, text_lower) THEN "hot_water_repair"
        ELSE IF AnyIn({"leak", "drip"}, text_lower) THEN "leak_repair"
        ELSE IF AnyIn({"pipe", "burst"}, text_lower) THEN "pipe_burst"
        ELSE "general_plumbing",
      urgency |->
        IF AnyIn({"urgent", "emergency", "asap", "now"}, text_lower) THEN "emergency"
        ELSE IF In("today", text_lower) THEN "today"
        ELSE IF In("tomorrow", text_lower) THEN "tomorrow"
        ELSE "flexible" ]

\* classify_lead_text (lead_orchestrator.py:53-91): without a key, and on any
\* exception (the request failing, json.loads raising), the keyword classifier;
\* otherwise whatever json.loads returned.
classify_lead_text(text, key, reply) ==
    IF ~key \/ reply.kind \in {"error", "not_json"}
      THEN orchestrator_fallback_classify(text)
      ELSE [ shape |-> reply.kind, job_type |-> reply.job_type,
             urgency |-> reply.urgency ]

\* ------------------------------------------------------------------ actions

InitClassify ==
    /\ message \in Texts
    /\ openrouter_api_key \in BOOLEAN
    /\ llm_reply \in LlmReplies
    /\ classify_path = "none"
    /\ classify_result = <<>>
    /\ llm_calls = 0
    /\ message_lead = <<>>

\* The requests one call of classify_lead or classify_lead_text makes to the
\* provider (langchain_agent.py:60-86, lead_orchestrator.py:58-79): none
\* without a key, otherwise one, whatever comes of it.
LlmRequests(key) == IF key THEN 1 ELSE 0

\* The call handler classifies the transcript (media_stream.py:262-271).
ClassifyTranscript ==
    /\ classify_path = "none"
    /\ classify_path' = "classify_lead"
    /\ classify_result' = << classify_lead(message, openrouter_api_key, llm_reply) >>
    /\ llm_calls' = llm_calls + LlmRequests(openrouter_api_key)
    /\ UNCHANGED << message, openrouter_api_key, llm_reply, message_lead >>
    /\ UNCHANGED notClassify

\* _safe_classify of the voice webhook (routers/voice.py:70-83): classify_lead
\* catches every exception itself (langchain_agent.py:89-94), so the first
\* attempt of the loop returns and the second is never made.
SafeClassify ==
    /\ classify_path = "none"
    /\ classify_path' = "_safe_classify"
    /\ classify_result' = << classify_lead(message, openrouter_api_key, llm_reply) >>
    /\ llm_calls' = llm_calls + LlmRequests(openrouter_api_key)
    /\ UNCHANGED << message, openrouter_api_key, llm_reply, message_lead >>
    /\ UNCHANGED notClassify

\* A lead is created for the message and the message is processed, as POST
\* /leads does without a job queue (routers/leads.py:56-60): create_lead, then
\* process_customer_message, which classifies the message
\* (lead_orchestrator.py:194-203). An answer that is not an object has no
\* .get: the request raises.
ProcessMessage(customer_phone, dist) ==
    /\ classify_path = "none"
    /\ classify_path' = "classify_lead_text"
    /\ LET cls == classify_lead_text(message, openrouter_api_key, llm_reply)
           lead == [create_lead("alice", customer_phone)
                      EXCEPT !.status = "details_collected"]
       IN  /\ classify_result' = << cls >>
           /\ message_lead' =
                IF cls.shape # "dict"
                  THEN << [raised |-> TRUE, lead |-> lead, rows |-> <<>>] >>
                  ELSE << process_customer_message(
                            lead, [job_type |-> cls.job_type, urgency |-> cls.urgency],
                            dist) >>
    /\ llm_calls' = llm_calls + LlmRequests(openrouter_api_key)
    /\ UNCHANGED << message, openrouter_api_key, llm_reply >>
    /\ UNCHANGED notClassify

NextClassify ==
    \/ ClassifyTranscript
    \/ SafeClassify
    \/ \E customer_phone \in BOOLEAN, dist \in DistanceResults :
         ProcessMessage(customer_phone, dist)

\* =========================================================================
\* Quote engine calls
\* =========================================================================

\* Calls of calculate_quote made with the same arguments.
MaxQuoteCalls == 2

\* Keyword arguments of calculate_quote: rates as a profile may hold them (the
\* columns are floats, schemas/lead.py:44-56 puts no constraint on them), hours
\* of the labour table, catalogue prices, distances.
QuoteArgs ==
    [ callout_fee : {0, 80000, 80005},
      hourly_rate : {95000, 110500},
      min_labour_hours : {10, 20},
      estimated_hours : {10, 15, 25},
      parts_cost : {0, 22000, 18990},
      markup_pct : {0, 15},
      distance_km : {0, 8, 60},
      travel_rate_per_km : {0, 1500} ]

InitQuote ==
    /\ quote_args \in QuoteArgs
    /\ quote_calls = <<>>

\* calculate_quote(**quote_args) is called and returns (quote_engine.py:14-99).
CalculateQuote ==
    /\ Len(quote_calls) < MaxQuoteCalls
    /\ quote_calls' =
         Append(quote_calls,
                calculate_quote(quote_args.callout_fee, quote_args.hourly_rate,
                                quote_args.min_labour_hours, quote_args.estimated_hours,
                                quote_args.parts_cost, quote_args.markup_pct,
                                quote_args.distance_km, quote_args.travel_rate_per_km))
    /\ UNCHANGED quote_args
    /\ UNCHANGED notQuote

NextQuote == CalculateQuote

\* =========================================================================
\* retry_async
\* =========================================================================

\* The largest max_attempts a call is made with (the callers pass 2 and 3, the
\* default is 3; retry.py:21).
MaxAttempts == 3

\* The httpx exceptions the integrations retry on (distance.py:78).
HttpRetryable == {"HTTPStatusError", "ConnectError", "ReadTimeout"}

\* retryable_exceptions as callers pass it: one class, the default
\* (Exception,), and the httpx classes.
RetryableSets == { {"ValueError"}, {"Exception"}, HttpRetryable }

\* Exception classes fn raises.
Raisable == {"ValueError", "UnicodeError", "TypeError", "HTTPStatusError", "ConnectTimeout"}

\* The class and its base classes: UnicodeError derives from ValueError, and
\* every class from Exception.
Bases(exc) ==
    IF exc = "UnicodeError" THEN {"UnicodeError", "ValueError", "Exception"}
    ELSE {exc, "Exception"}

\* The status codes of the response an exception of fn carries:
\* resp.raise_for_status() raises HTTPStatusError for a 4xx and for a 5xx
\* response (distance.py:70, vision.py:71); the other exceptions come without
\* a response.
StatusOf(exc) == IF exc = "HTTPStatusError" THEN {404, 503} ELSE {0}

\* Caught as "except Exception" would catch: every exception.
Caught_Everything(exc, classes) == TRUE

\* "except retryable_exceptions": the exception is an instance of one of the
\* classes.
Caught(exc, classes) == Bases(exc) \cap classes # {}

\* No call of retry_async has begun; the parameters are the defaults.
RetryIdle ==
    /\ retry_max = 3
    /\ retry_on = {"Exception"}
    /\ retry_pos = "idle"
    /\ attempt = 0
    /\ last_exc = ""
    /\ retry_calls = 0
    /\ retry_raised = ""
    /\ fn_status = 0

\* retry_async(fn, max_attempts, retryable_exceptions) is called and reaches
\* its first "await fn()" (retry.py:37-40).
RetryStart(max_attempts, retryable_exceptions) ==
    /\ retry_max' = max_attempts
    /\ retry_on' = retryable_exceptions
    /\ retry_pos' = "call"
    /\ attempt' = 0
    /\ last_exc' = ""
    /\ retry_calls' = 0
    /\ retry_raised' = ""
    /\ fn_status' = 0

\* A call of retry_async has begun, with any parameters.
InitRetry ==
    /\ retry_max \in 1..MaxAttempts
    /\ retry_on \in RetryableSets
    /\ retry_pos = "call"
    /\ attempt = 0
    /\ last_exc = ""
    /\ retry_calls = 0
    /\ retry_raised = ""
    /\ fn_status = 0

\* fn returns: its result is returned (retry.py:40). The integrations' fn
\* returns the body of a response that raise_for_status let through.
FnReturns ==
    /\ retry_pos = "call"
    /\ retry_calls' = retry_calls + 1
    /\ fn_status' = 200
    /\ retry_pos' = "returned"
    /\ UNCHANGED << retry_max, retry_on, attempt, last_exc, retry_raised >>
    /\ UNCHANGED notRetry

\* FnRaises sleeping and trying again after the last attempt too, where the
\* code asks "attempt < max_attempts - 1" (retry.py:43).
FnRaises_OneMoreAttempt(exc) ==
    /\ retry_pos = "call"
    /\ retry_calls' = retry_calls + 1
    /\ fn_status' \in StatusOf(exc)
    /\ IF ~Caught(exc, retry_on)
         THEN /\ retry_pos' = "raised"
              /\ retry_raised' = exc
              /\ UNCHANGED last_exc
         ELSE /\ last_exc' = exc
              /\ IF attempt < retry_max
                   THEN /\ retry_pos' = "sleep"
                        /\ UNCHANGED retry_raised
                   ELSE /\ retry_pos' = "raised"
                        /\ retry_raised' = exc
    /\ UNCHANGED << retry_max, retry_on, attempt >>
    /\ UNCHANGED notRetry

\* fn raises exc (retry.py:41-57): an exception that is not caught leaves the
\* function; a caught one is kept, and the loop sleeps before the next attempt
\* or, after the last one, ends and "raise last_exc" runs.
FnRaises(exc) ==
    /\ retry_pos = "call"
    /\ retry_calls' = retry_calls + 1
    /\ fn_status' \in StatusOf(exc)
    /\ IF ~Caught(exc, retry_on)
         THEN /\ retry_pos' = "raised"
              /\ retry_raised' = exc
              /\ UNCHANGED last_exc
         ELSE /\ last_exc' = exc
              /\ IF attempt < retry_max - 1
                   THEN /\ retry_pos' = "sleep"
                        /\ UNCHANGED retry_raised
                   ELSE /\ retry_pos' = "raised"
                        /\ retry_raised' = exc
    /\ UNCHANGED << retry_max, retry_on, attempt >>
    /\ UNCHANGED notRetry

\* asyncio.sleep(wait) returns (retry.py:51): the next attempt.
SleepDone ==
    /\ retry_pos = "sleep"
    /\ attempt' = attempt + 1
    /\ retry_pos' = "call"
    /\ UNCHANGED << retry_max, retry_on, last_exc, retry_calls, retry_raised,
                    fn_status >>
    /\ UNCHANGED notRetry

NextRetry ==
    \/ FnReturns
    \/ \E exc \in Raisable : FnRaises(exc)
    \/ SleepDone

\* =========================================================================
\* calculate_distance
\* =========================================================================

\* No call of calculate_distance has begun.
DistanceIdle ==
    /\ endpoints = [origin |-> TRUE, destination |-> TRUE]
    /\ google_maps_api_key = FALSE
    /\ distance_pos = "idle"
    /\ geocoded = 0
    /\ distance_result = <<>>

\* calculate_distance is about to be called, with any arguments and settings.
InitDistance ==
    /\ endpoints \in [origin : BOOLEAN, destination : BOOLEAN]
    /\ google_maps_api_key \in BOOLEAN
    /\ distance_pos = "start"
    /\ geocoded = 0
    /\ distance_result = <<>>

\* calculate_distance up to its first await (distance.py:46-55): blank
\* arguments raise; with a key _distance_google begins its retry_async
\* (73-79); without one _distance_osrm begins.
DistanceCall ==
    /\ distance_pos = "start"
    /\ IF ~endpoints.origin \/ ~endpoints.destination
         THEN /\ distance_pos' = "raised"
              /\ UNCHANGED retryVars
         ELSE IF google_maps_api_key
           THEN /\ distance_pos' = "google"
                /\ RetryStart(2, HttpRetryable)
           ELSE /\ distance_pos' = "geocode_origin"
                /\ UNCHANGED retryVars
    /\ UNCHANGED << endpoints, google_maps_api_key, geocoded, distance_result >>
    /\ UNCHANGED notDistance

\* retry_async has returned the response of the Distance Matrix
\* (distance.py:81-87): an element with status OK gives the result; any other
\* status, or a response without the expected keys, raises, and
\* calculate_distance goes on to _distance_osrm (52-55).
GoogleAnswer(element) ==
    /\ distance_pos = "google"
    /\ retry_pos = "returned"
    /\ IF element = "OK"
         THEN /\ distance_pos' = "returned"
              /\ distance_result' = << "google" >>
         ELSE /\ distance_pos' = "geocode_origin"
              /\ UNCHANGED distance_result
    /\ UNCHANGED << endpoints, google_maps_api_key, geocoded >>
    /\ UNCHANGED retryVars
    /\ UNCHANGED notDistance

\* retry_async has raised: calculate_distance goes on to _distance_osrm
\* (distance.py:52-55).
GoogleFailed ==
    /\ distance_pos = "google"
    /\ retry_pos = "raised"
    /\ distance_pos' = "geocode_origin"
    /\ UNCHANGED << endpoints, google_maps_api_key, geocoded, distance_result >>
    /\ UNCHANGED retryVars
    /\ UNCHANGED notDistance

\* _geocode_osm returns the coordinates of an endpoint, or raises: the request
\* failed or no row was found (distance.py:91-92, 117-133).
Geocode(found) ==
    /\ distance_pos \in {"geocode_origin", "geocode_destination"}
    /\ IF found
         THEN /\ geocoded' = geocoded + 1
              /\ distance_pos' =
                   IF distance_pos = "geocode_origin"
                     THEN "geocode_destination" ELSE "route"
         ELSE /\ distance_pos' = "raised"
              /\ UNCHANGED geocoded
    /\ UNCHANGED << endpoints, google_maps_api_key, distance_result >>
    /\ UNCHANGED retryVars
    /\ UNCHANGED notDistance

\* The request to the router ends (distance.py:99-114): a response with a route
\* gives its distance, one without routes the great-circle distance; a failed
\* request (connection error, timeout, raise_for_status) raises.
Route(answer) ==
    /\ distance_pos = "route"
    /\ CASE answer = "route" ->
              /\ distance_pos' = "returned"
              /\ distance_result' = << "osrm" >>
         [] answer = "no_route" ->
              /\ distance_pos' = "returned"
              /\ distance_result' = << "haversine" >>
         [] answer = "error" ->
              /\ distance_pos' = "raised"
              /\ UNCHANGED distance_result
    /\ UNCHANGED << endpoints, google_maps_api_key, geocoded >>
    /\ UNCHANGED retryVars
    /\ UNCHANGED notDistance

NextDistance ==
    \/ DistanceCall
    \/ FnReturns
    \/ \E exc \in Raisable : FnRaises(exc)
    \/ SleepDone
    \/ \E element \in {"OK", "ZERO_RESULTS", "malformed"} : GoogleAnswer(element)
    \/ GoogleFailed
    \/ \E found \in BOOLEAN : Geocode(found)
    \/ \E answer \in {"route", "no_route", "error"} : Route(answer)

\* =========================================================================
\* Connection registry
\* =========================================================================

\* ------------------------------------------------------------------ bounds

\* Calls of send_to_tradie and broadcast_all in a run.
MaxCalls == 2

\* ------------------------------------------------------------------ inputs

\* The WebSockets that may connect, and the tradie each authenticates as.
Sockets == {"s1", "s2", "s3"}

TradieOf(ws) == IF ws = "s3" THEN "bob" ELSE "alice"

Tradies == { TradieOf(ws) : ws \in Sockets }

\* ---------------------------------------------------------------- the dict
\* _connections is a dict of lists. An entry of `connections` is one key of the
\* dict with the list object it maps to; a deleted key leaves its entry behind
\* with live = FALSE, as the dict leaves a dummy slot, so that an iteration in
\* progress keeps its place and keeps the list it was given.

\* The entry of tradie_id in the dict conn, 0 when the key is absent.
EntryOf(conn, tradie_id) ==
    IF \E p \in 1..Len(conn) : conn[p].live /\ conn[p].tradie_id = tradie_id
      THEN CHOOSE p \in 1..Len(conn) : conn[p].live /\ conn[p].tradie_id = tradie_id
      ELSE 0

\* len(_connections)
DictSize(conn) == Cardinality({ p \in 1..Len(conn) : conn[p].live })

Elements(list) == { list[k] : k \in 1..Len(list) }

\* The sockets registered in conn, under one key or under any.
RegisteredFor(conn, tradie_id) ==
    IF EntryOf(conn, tradie_id) = 0 THEN {}
    ELSE Elements(conn[EntryOf(conn, tradie_id)].conns)

Registered(conn) ==
    UNION { Elements(conn[p].conns) : p \in { q \in 1..Len(conn) : conn[q].live } }

\* active_count (connection_manager.py:104-107)
RECURSIVE active_count(_)
active_count(conn) ==
    IF conn = <<>> THEN 0
    ELSE (IF Head(conn).live THEN Len(Head(conn).conns) ELSE 0)
           + active_count(Tail(conn))

\* list.remove: the first occurrence of ws is taken out.
RECURSIVE ListRemove(_, _)
ListRemove(list, ws) ==
    IF list = <<>> THEN <<>>
    ELSE IF Head(list) = ws THEN Tail(list)
    ELSE << Head(list) >> \o ListRemove(Tail(list), ws)

\* disconnect without its "del self._connections[tradie_id]": the key of a
\* list that has become empty stays in the dict.
disconnect_KeepsEmptyKey(conn, tradie_id, ws) ==
    LET p == EntryOf(conn, tradie_id) IN
    IF p = 0 THEN conn
    ELSE [conn EXCEPT ![p] = [@ EXCEPT !.conns = ListRemove(conn[p].conns, ws)]]

\* disconnect (connection_manager.py:39-46), on the dict conn.
disconnect(conn, tradie_id, ws) ==
    LET p == EntryOf(conn, tradie_id) IN
    IF p = 0 THEN conn
    ELSE LET conns == ListRemove(conn[p].conns, ws) IN
         [conn EXCEPT ![p] = [@ EXCEPT !.conns = conns, !.live = (conns # <<>>)]]

\* "for ws in dead_conns: self.disconnect(tradie_id, ws)"
\* (connection_manager.py:60-62, 76-77)
RECURSIVE Cleanup(_, _)
Cleanup(conn, dead) ==
    IF dead = <<>> THEN conn
    ELSE Cleanup(disconnect(conn, Head(dead)[1], Head(dead)[2]), Tail(dead))

InitRegistry ==
    /\ connections = <<>>
    /\ sockets = [ws \in Sockets |-> "new"]
    /\ task_op = "idle"
    /\ task_pos = 0
    /\ task_idx = 0
    /\ task_used = 0
    /\ task_ws = ""
    /\ dead_conns = <<>>
    /\ targets = {}
    /\ delivered = {}
    /\ calls = 0

taskVars ==
    << task_op, task_pos, task_idx, task_used, task_ws, dead_conns, targets,
       delivered, calls >>

\* connect (connection_manager.py:28-37), from websocket_leads
\* (routers/ws_leads.py:52): the socket is accepted and registered.
connect(ws) ==
    /\ sockets[ws] = "new"
    /\ sockets' = [sockets EXCEPT ![ws] = "open"]
    /\ LET p == EntryOf(connections, TradieOf(ws)) IN
         connections' =
           IF p = 0
             THEN Append(connections,
                         [tradie_id |-> TradieOf(ws), conns |-> << ws >>,
                          live |-> TRUE])
             ELSE [connections EXCEPT ![p].conns = Append(@, ws)]
    /\ UNCHANGED taskVars
    /\ UNCHANGED notRegistry

\* The handler of a connected socket ends: WebSocketDisconnect or another
\* exception, then lead_manager.disconnect (routers/ws_leads.py:85-89).
websocket_leads_disconnect(ws) ==
    /\ sockets[ws] = "open"
    /\ sockets' = [sockets EXCEPT ![ws] = "closed"]
    /\ connections' = disconnect(connections, TradieOf(ws), ws)
    /\ UNCHANGED taskVars
    /\ UNCHANGED notRegistry

\* The next step of "for ws in conns" (connection_manager.py:54, 70): the list
\* iterator yields the element after the idx it has passed, if the list, as it
\* is now, has one.
ListNext(conn, pos, idx) ==
    IF pos > 0 /\ idx < Len(conn[pos].conns)
      THEN [kind |-> "send", pos |-> pos, idx |-> idx + 1,
            ws |-> conn[pos].conns[idx + 1]]
      ELSE [kind |-> "end", pos |-> pos, idx |-> idx, ws |-> ""]

\* The next step of the loops of broadcast_all (connection_manager.py:69-70):
\* the inner list first; when it is exhausted the dict iterator moves on, and
\* raises RuntimeError if the dict has changed size since the iteration began.
DictNext(conn, pos, idx, used) ==
    LET later == { p \in (pos + 1)..Len(conn) : conn[p].live } IN
    IF ListNext(conn, pos, idx).kind = "send" THEN ListNext(conn, pos, idx)
    ELSE IF DictSize(conn) # used
      THEN [kind |-> "raise", pos |-> pos, idx |-> idx, ws |-> ""]
    ELSE IF later = {}
      THEN [kind |-> "end", pos |-> pos, idx |-> idx, ws |-> ""]
    ELSE LET p == CHOOSE q \in later : \A r \in later : q <= r IN
         ListNext(conn, p, 0)

\* The call goes on to its next await, or ends: by returning after the cleanup
\* of the dead connections, or by the RuntimeError.
Proceed(op, step, dead) ==
    /\ task_pos' = step.pos
    /\ task_idx' = step.idx
    /\ task_ws' = step.ws
    /\ dead_conns' = dead
    /\ CASE step.kind = "send" ->
              /\ task_op' = op
              /\ UNCHANGED connections
         [] step.kind = "end" ->
              /\ task_op' = "returned"
              /\ connections' = Cleanup(connections, dead)
         [] step.kind = "raise" ->
              /\ task_op' = "raised"
              /\ UNCHANGED connections

\* send_to_tradie is called (connection_manager.py:48-56), up to its first await.
send_to_tradie(tradie_id) ==
    /\ task_op \in {"idle", "returned", "raised"}
    /\ calls < MaxCalls
    /\ calls' = calls + 1
    /\ targets' = RegisteredFor(connections, tradie_id)
    /\ delivered' = {}
    /\ task_used' = 0
    /\ Proceed("send", ListNext(connections, EntryOf(connections, tradie_id), 0), <<>>)
    /\ UNCHANGED sockets
    /\ UNCHANGED notRegistry

\* broadcast_all is called (connection_manager.py:64-72), up to its first await.
broadcast_all ==
    /\ task_op \in {"idle", "returned", "raised"}
    /\ calls < MaxCalls
    /\ calls' = calls + 1
    /\ targets' = Registered(connections)
    /\ delivered' = {}
    /\ task_used' = DictSize(connections)
    /\ Proceed("broadcast", DictNext(connections, 0, 0, DictSize(connections)), <<>>)
    /\ UNCHANGED sockets
    /\ UNCHANGED notRegistry

\* The awaited ws.send_text returns, or raises (connection_manager.py:55-58,
\* 71-74), and the loop goes on. A send on a socket whose handler has ended
\* raises.
send_text_done(ok) ==
    /\ task_op \in {"send", "broadcast"}
    /\ ok => sockets[task_ws] = "open"
    /\ delivered' = IF ok THEN delivered \cup {task_ws} ELSE delivered
    /\ LET dead == IF ok THEN dead_conns
                   ELSE Append(dead_conns,
                               << connections[task_pos].tradie_id, task_ws >>)
       IN  IF task_op = "send"
             THEN Proceed("send", ListNext(connections, task_pos, task_idx), dead)
             ELSE Proceed("broadcast",
                          DictNext(connections, task_pos, task_idx, task_used), dead)
    /\ UNCHANGED << sockets, task_used, targets, calls >>
    /\ UNCHANGED notRegistry

NextRegistry ==
    \/ \E ws \in Sockets : connect(ws)
    \/ \E ws \in Sockets : websocket_leads_disconnect(ws)
    \/ \E tradie_id \in Tradies : send_to_tradie(tradie_id)
    \/ broadcast_all
    \/ \E ok \in BOOLEAN : send_text_done(ok)

\* =========================================================================
\* Tradie profile cache
\* =========================================================================

\* The keys load_tradie_context uses: tradie_id or "default".
CacheKeys == {"default", "t1"}

\* The context load_tradie_context builds from the profile row
\* (tradie_context.py:74-104); of its fields the id and one rate are kept.
ProfileContext(hourly_rate) == [tradie_id |-> "t1", hourly_rate |-> hourly_rate]

\* _default_context (tradie_context.py:235-260)
default_context == [tradie_id |-> "", hourly_rate |-> 120]

\* _get_redis (lead_cache.py:27-44): r is what it returns (FALSE for None),
\* client is _redis after the call. A client made while the server answered is
\* kept and returned without another ping.
get_redis ==
    IF ~redis_enabled THEN [r |-> FALSE, client |-> redis_client]
    ELSE IF ~redis_client THEN [r |-> redis_up, client |-> redis_up]
    ELSE [r |-> TRUE, client |-> TRUE]

\* get_cached_tradie without its "except Exception: return None": the error of
\* r.get reaches the caller.
get_cached_tradie_NoCatch(key) ==
    IF ~get_redis.r THEN [value |-> <<>>, raised |-> FALSE]
    ELSE IF ~redis_up THEN [value |-> <<>>, raised |-> TRUE]
    ELSE [value |-> cache_rows[key], raised |-> FALSE]

\* get_cached_tradie (lead_cache.py:116-125): the command of a client whose
\* server does not answer raises, which is caught.
get_cached_tradie(key) ==
    IF ~get_redis.r THEN [value |-> <<>>, raised |-> FALSE]
    ELSE IF ~redis_up THEN [value |-> <<>>, raised |-> FALSE]
    ELSE [value |-> cache_rows[key], raised |-> FALSE]

\* cache_tradie (lead_cache.py:105-113): the rows after the call.
cache_tradie(key, context) ==
    IF get_redis.r /\ redis_up
      THEN [cache_rows EXCEPT ![key] = << context >>]
      ELSE cache_rows

\* What the store holds for load_tradie_context (tradie_context.py:54-72): the
\* row with the id asked for, or the first row; no row gives the default.
StoreContext(tradie_id) ==
    IF tradie_profile = <<>> \/ tradie_id \notin {"", "t1"}
      THEN default_context
      ELSE ProfileContext(tradie_profile[1])

CacheAbsent == ~redis_enabled \/ ~redis_up

InitCache ==
    /\ redis_enabled \in BOOLEAN
    /\ redis_up \in BOOLEAN
    /\ redis_client = FALSE
    /\ cache_rows = [k \in CacheKeys |-> <<>>]
    /\ tradie_profile \in {<<>>, << 95 >>}
    /\ cache_last = <<>>

\* The cache is not used: it is disabled and the store is empty.
CacheIdle ==
    /\ InitCache
    /\ ~redis_enabled
    /\ ~redis_up
    /\ tradie_profile = <<>>

\* await get_cached_tradie(key) (lead_cache.py:116-125)
GetCachedTradie(key) ==
    /\ redis_client' = get_redis.client
    /\ cache_last' =
         << [op |-> "get", key |-> key, absent |-> CacheAbsent,
             raised |-> get_cached_tradie(key).raised,
             value |-> get_cached_tradie(key).value,
             changed |-> FALSE, db_ok |-> TRUE, store |-> <<>>] >>
    /\ UNCHANGED << redis_enabled, redis_up, cache_rows, tradie_profile >>
    /\ UNCHANGED notCache

\* await cache_tradie(key, context) (lead_cache.py:105-113)
CacheTradie(key, context) ==
    /\ redis_client' = get_redis.client
    /\ cache_rows' = cache_tradie(key, context)
    /\ cache_last' =
         << [op |-> "set", key |-> key, absent |-> CacheAbsent, raised |-> FALSE,
             value |-> <<>>, changed |-> (cache_rows' # cache_rows),
             db_ok |-> TRUE, store |-> <<>>] >>
    /\ UNCHANGED << redis_enabled, redis_up, tradie_profile >>
    /\ UNCHANGED notCache

\* await invalidate_tradie(key) (lead_cache.py:128-136)
InvalidateTradie(key) ==
    /\ redis_client' = get_redis.client
    /\ cache_rows' =
         IF get_redis.r /\ redis_up THEN [cache_rows EXCEPT ![key] = <<>>]
         ELSE cache_rows
    /\ cache_last' =
         << [op |-> "delete", key |-> key, absent |-> CacheAbsent, raised |-> FALSE,
             value |-> <<>>, changed |-> (cache_rows' # cache_rows),
             db_ok |-> TRUE, store |-> <<>>] >>
    /\ UNCHANGED << redis_enabled, redis_up, tradie_profile >>
    /\ UNCHANGED notCache

\* await load_tradie_context(db, tradie_id) (tradie_context.py:29-114): a cache
\* hit is returned as it is; otherwise the store is read, the context of the
\* row is cached and returned; no row, or an error of the store, gives the
\* default context, which is not cached.
LoadTradieContext(tradie_id, db_ok) ==
    LET key == IF tradie_id = "" THEN "default" ELSE tradie_id
        cached == get_cached_tradie(key)
        found == db_ok /\ StoreContext(tradie_id) # default_context
        context ==
            IF cached.value # <<>> THEN cached.value[1]
            ELSE IF found THEN StoreContext(tradie_id) ELSE default_context
    IN  /\ redis_client' = get_redis.client
        /\ cache_rows' =
             IF ~cached.raised /\ cached.value = <<>> /\ found
               THEN cache_tradie(key, context)
               ELSE cache_rows
        /\ cache_last' =
             << [op |-> "load", key |-> key, absent |-> CacheAbsent,
                 raised |-> cached.raised,
                 value |-> IF cached.raised THEN <<>> ELSE << context >>,
                 changed |-> (cache_rows' # cache_rows),
                 db_ok |-> db_ok, store |-> << StoreContext(tradie_id) >>] >>
        /\ UNCHANGED << redis_enabled, redis_up, tradie_profile >>
        /\ UNCHANGED notCache

\* The Redis server stops or starts answering.
RedisChanges ==
    /\ redis_up' = ~redis_up
    /\ UNCHANGED << redis_enabled, redis_client, cache_rows, tradie_profile, cache_last >>
    /\ UNCHANGED notCache

\* POST /tradie/profile (routers/tradie.py:27-73): the row is created or
\* updated; the cache is not invalidated.
SaveProfile(hourly_rate) ==
    /\ tradie_profile # << hourly_rate >>
    /\ tradie_profile' = << hourly_rate >>
    /\ UNCHANGED << redis_enabled, redis_up, redis_client, cache_rows, cache_last >>
    /\ UNCHANGED notCache

\* The server drops a row whose time to live has passed (cache_tradie sets
\* "ex=ttl", lead_cache.py:111; load_tradie_context passes 3600 seconds).
TtlExpires(key) ==
    /\ cache_rows[key] # <<>>
    /\ cache_rows' = [cache_rows EXCEPT ![key] = <<>>]
    /\ UNCHANGED << redis_enabled, redis_up, redis_client, tradie_profile, cache_last >>
    /\ UNCHANGED notCache

NextCache ==
    \/ \E key \in CacheKeys : GetCachedTradie(key)
    \/ \E key \in CacheKeys, rate \in {95, 110} : CacheTradie(key, ProfileContext(rate))
    \/ \E key \in CacheKeys : InvalidateTradie(key)
    \/ \E tradie_id \in {"", "t1"}, db_ok \in BOOLEAN : LoadTradieContext(tradie_id, db_ok)
    \/ RedisChanges
    \/ \E rate \in {95, 110} : SaveProfile(rate)
    \/ \E key \in CacheKeys : TtlExpires(key)

\* The cache as the application uses it: load_tradie_context is the only
\* caller of get_cached_tradie and cache_tradie, and invalidate_tradie has no
\* caller.
NextProfile ==
    \/ \E tradie_id \in {"", "t1"}, db_ok \in BOOLEAN : LoadTradieContext(tradie_id, db_ok)
    \/ RedisChanges
    \/ \E rate \in {95, 110} : SaveProfile(rate)
    \/ \E key \in CacheKeys : TtlExpires(key)


\* =========================================================================
\* Voice webhook
\* =========================================================================

\* The TwiML responses of the router (routers/voice.py:640-760).
TwiML == {"greeting", "retry", "noisy", "out_of_area", "confirmation", "error"}

InitWebhook ==
    /\ wh_pos = "form"
    /\ wh_form = [parsed |-> TRUE, recording |-> FALSE, to |-> FALSE]
    /\ wh_ctx = <<>>
    /\ wh_heard = ""
    /\ wh_suburb = ""
    /\ wh_sms = ""
    /\ wh_published = FALSE
    /\ wh_response = ""

\* return <a TwiML response>
Respond(twiml) ==
    /\ wh_pos' = "done"
    /\ wh_response' = twiml

\* form = await request.form() (routers/voice.py:294-298)
ParseForm ==
    /\ wh_pos = "form"
    /\ IF wh_form.parsed
         THEN /\ wh_pos' = "context"
              /\ UNCHANGED wh_response
         ELSE Respond("error")
    /\ UNCHANGED << wh_form, wh_ctx, wh_heard, wh_suburb, wh_sms, wh_published >>
    /\ UNCHANGED notWebhook

\* LoadContext without the try of routers/voice.py:316-337: an exception of
\* the profile lookup leaves the handler.
LoadContext_NotCaught(outcome) ==
    /\ wh_pos = "context"
    /\ wh_ctx' = << [loaded |-> (outcome # "raises"),
                     by_number |-> (wh_form.to /\ outcome # "raises"),
                     base_address |-> (outcome = "profile")] >>
    /\ IF outcome = "raises"
         THEN /\ wh_pos' = "raised"
              /\ UNCHANGED wh_response
         ELSE IF wh_form.recording
           THEN /\ wh_pos' = "transcribe"
                /\ UNCHANGED wh_response
           ELSE Respond("greeting")
    /\ UNCHANGED << wh_form, wh_heard, wh_suburb, wh_sms, wh_published >>
    /\ UNCHANGED notWebhook

\* The tradie context is loaded (routers/voice.py:314-339), for the profile the
\* To number selects or for the default one: a profile with a base address, a
\* context without one, or an exception, which leaves tradie_ctx = {}. Without a recording the greeting is returned (344-345).
LoadContext(outcome) ==
    /\ wh_pos = "context"
    /\ wh_ctx' = << [loaded |-> (outcome # "raises"),
                     by_number |-> (wh_form.to /\ outcome # "raises"),
                     base_address |-> (outcome = "profile")] >>
    /\ IF wh_form.recording
         THEN /\ wh_pos' = "transcribe"
              /\ UNCHANGED wh_response
         ELSE Respond("greeting")
    /\ UNCHANGED << wh_form, wh_heard, wh_suburb, wh_sms, wh_published >>
    /\ UNCHANGED notWebhook

\* _safe_transcribe returns (routers/voice.py:86-100, 352-372): "failed" is the
\* empty result it gives after two failed attempts.
Transcribe(heard) ==
    /\ wh_pos = "transcribe"
    /\ wh_heard' = heard
    /\ CASE heard \in {"failed", "short"} -> Respond("retry")
         [] heard = "low" -> Respond("noisy")
         [] OTHER -> /\ wh_pos' = "classify"
                     /\ UNCHANGED wh_response
    /\ UNCHANGED << wh_form, wh_ctx, wh_suburb, wh_sms, wh_published >>
    /\ UNCHANGED notWebhook

\* asyncio.gather of _safe_classify and _send_photo_sms returns
\* (routers/voice.py:374-391): an exception among the results is replaced by the
\* keyword classification; then the service-area check is entered or skipped.
Classify(suburb, sms) ==
    /\ wh_pos = "classify"
    /\ wh_suburb' = suburb
    /\ wh_sms' = sms
    /\ wh_pos' = IF suburb # "unknown" /\ wh_ctx[1].base_address
                   THEN "distance" ELSE "publish"
    /\ UNCHANGED << wh_form, wh_ctx, wh_heard, wh_published, wh_response >>
    /\ UNCHANGED notWebhook

\* calculate_distance returns or raises (routers/voice.py:393-406)
CheckDistance(outcome) ==
    /\ wh_pos = "distance"
    /\ IF outcome = "outside"
         THEN Respond("out_of_area")
         ELSE /\ wh_pos' = "publish"
              /\ UNCHANGED wh_response
    /\ UNCHANGED << wh_form, wh_ctx, wh_heard, wh_suburb, wh_sms, wh_published >>
    /\ UNCHANGED notWebhook

\* The lead is built, broadcast, cached and persisted, and the confirmation is
\* returned (routers/voice.py:408-440).
Publish ==
    /\ wh_pos = "publish"
    /\ wh_published' = TRUE
    /\ Respond("confirmation")
    /\ UNCHANGED << wh_form, wh_ctx, wh_heard, wh_suburb, wh_sms >>
    /\ UNCHANGED notWebhook

\* Any statement of the processing block raises (routers/voice.py:350,
\* 442-444).
ProcessingRaises ==
    /\ wh_pos \in {"transcribe", "classify", "distance", "publish"}
    /\ Respond("error")
    /\ UNCHANGED << wh_form, wh_ctx, wh_heard, wh_suburb, wh_sms, wh_published >>
    /\ UNCHANGED notWebhook

NextWebhook ==
    \/ ParseForm
    \/ \E outcome \in {"profile", "default", "raises"} : LoadContext(outcome)
    \/ \E heard \in {"failed", "short", "low", "good"} : Transcribe(heard)
    \/ \E suburb \in {"unknown", "Robina"}, sms \in {"sent", "error"} : Classify(suburb, sms)
    \/ \E outcome \in {"inside", "outside", "raises"} : CheckDistance(outcome)
    \/ Publish
    \/ ProcessingRaises


\* =========================================================================
\* Photo uploads
\* =========================================================================

\* Uploads handled in a run.
MaxUploads == 2

\* voice.py:40  "MAX_PHOTO_SIZE = 10 * 1024 * 1024"
MAX_PHOTO_SIZE == 10485760

\* voice.py:42, as type and subtype.
ALLOWED_IMAGE_TYPES ==
    { [type |-> "image", subtype |-> s] : s \in {"jpeg", "png", "webp", "heic", "heif"} }

\* Content types of an upload: an allowed one, another image type, and one
\* that is no image.
MimeTypes ==
    { [type |-> "image", subtype |-> "jpeg"], [type |-> "image", subtype |-> "bmp"],
      [type |-> "text", subtype |-> "plain"] }

\* len(image_bytes) of an upload.
Sizes == {0, 1, MAX_PHOTO_SIZE + 1}

\* str(exc) of the exceptions analyse_image raises (vision.py:41-43, 164-175,
\* 198): the second carries the status and the body of the provider's response.
AnalysisErrors ==
    { "No image analysis provider configured. Set GOOGLE_CLOUD_VISION_KEY or OPENROUTER_API_KEY.",
      "OpenRouter vision failed: 401: <response body>",
      "OpenRouter vision returned no labels/objects" }

\* The lead of a lead_update event (connection_manager.py:86-91): its status,
\* and the "error" and "visionSummary" keys as the parts of their text, <<>>
\* when the key is absent.
LeadUpdate(status, error, visionSummary) ==
    [status |-> status, error |-> error, visionSummary |-> visionSummary]

InitPhoto ==
    /\ photo_pos = "idle"
    /\ photo_handler = ""
    /\ photo_events = <<>>
    /\ photo_response = ""
    /\ uploads = 0

\* The handler returns or raises HTTPException with this status code.
PhotoRespond(code) ==
    /\ photo_response' = code
    /\ photo_pos' = "idle"
    /\ photo_handler' = ""

\* POST /voice/photos/{lead_id} up to "await analyse_image" (voice.py:447-479).
upload_lead_photo_public(mime_type, size) ==
    /\ photo_pos = "idle"
    /\ uploads < MaxUploads
    /\ uploads' = uploads + 1
    /\ IF mime_type \notin ALLOWED_IMAGE_TYPES /\ mime_type.type # "image"
         THEN PhotoRespond("400")
         ELSE IF size > MAX_PHOTO_SIZE
           THEN PhotoRespond("413")
           ELSE IF size = 0
             THEN PhotoRespond("400")
             ELSE /\ photo_pos' = "analyse_image"
                  /\ photo_handler' = "upload_lead_photo_public"
                  /\ photo_response' = ""
    /\ UNCHANGED photo_events
    /\ UNCHANGED notPhoto

\* POST /leads/{lead_id}/photo up to "await process_photo" (leads.py:159-192,
\* 201-210); queued is what enqueue_photo_processing returned.
upload_photo(lead_found, queued) ==
    /\ photo_pos = "idle"
    /\ uploads < MaxUploads
    /\ uploads' = uploads + 1
    /\ IF ~lead_found
         THEN /\ PhotoRespond("404")
              /\ UNCHANGED photo_events
         ELSE IF queued
           THEN /\ photo_events' =
                     Append(photo_events, LeadUpdate("photo_received", <<>>, <<>>))
                /\ PhotoRespond("200")
           ELSE /\ photo_pos' = "analyse_image"
                /\ photo_handler' = "upload_photo"
                /\ photo_response' = ""
                /\ UNCHANGED photo_events
    /\ UNCHANGED notPhoto

\* analyse_image returns. upload_photo commits and broadcasts the status of
\* the lead (leads.py:201-210); upload_lead_photo_public goes on to
\* enhance_vision_analysis (voice.py:481).
AnalysisReturns ==
    /\ photo_pos = "analyse_image"
    /\ IF photo_handler = "upload_photo"
         THEN /\ photo_events' =
                   Append(photo_events, LeadUpdate("details_collected", <<>>, <<>>))
              /\ PhotoRespond("200")
         ELSE /\ photo_pos' = "enhance_vision_analysis"
              /\ UNCHANGED << photo_handler, photo_events, photo_response >>
    /\ UNCHANGED uploads
    /\ UNCHANGED notPhoto

\* analyse_image raises: the handler broadcasts analysis_failed and answers
\* 503 (leads.py:193-200, voice.py:514-521).
AnalysisRaises(exc) ==
    /\ photo_pos = "analyse_image"
    /\ photo_events' =
         Append(photo_events,
                IF photo_handler = "upload_photo"
                  THEN LeadUpdate("analysis_failed", << exc >>, <<>>)
                  ELSE LeadUpdate("analysis_failed", <<>>,
                                  << "Photo analysis failed: ", exc >>))
    /\ PhotoRespond("503")
    /\ UNCHANGED uploads
    /\ UNCHANGED notPhoto

\* enhance_vision_analysis returns (it catches its own exceptions,
\* langchain_agent.py:220-222): photo_analysed is broadcast (voice.py:487-512).
EnhanceReturns(notes) ==
    /\ photo_pos = "enhance_vision_analysis"
    /\ photo_events' =
         Append(photo_events,
                LeadUpdate("photo_analysed", <<>>, << "Detected: ", "tap", ". ", notes >>))
    /\ PhotoRespond("200")
    /\ UNCHANGED uploads
    /\ UNCHANGED notPhoto

NextPhoto ==
    \/ \E mime_type \in MimeTypes, size \in Sizes : upload_lead_photo_public(mime_type, size)
    \/ \E lead_found \in BOOLEAN, queued \in BOOLEAN : upload_photo(lead_found, queued)
    \/ AnalysisReturns
    \/ \E exc \in AnalysisErrors : AnalysisRaises(exc)
    \/ \E notes \in {"", "Worn washer."} : EnhanceReturns(notes)

\* =========================================================================
\* Lead creation and the background worker
\* =========================================================================

\* The leads the requests of a run create.
Leads == {"l1", "l2"}

InitJob ==
    /\ lead_pos = [l \in Leads |-> "none"]
    /\ job_queue = <<>>
    /\ worker_pos = "dequeue"
    /\ worker_job = ""
    /\ jobs_dropped = {}
    /\ leads_processed = {}

\* The row of the lead can be read by another database session: the session
\* that added it has committed.
Visible(l) == lead_pos[l] = "committed"

\* create_new_lead up to "await enqueue_lead_processing" (leads.py:44-57):
\* create_lead adds the row and flushes it inside the transaction of the
\* request (lead_orchestrator.py:165-166).
CreateLead(l) ==
    /\ lead_pos[l] = "none"
    /\ lead_pos' = [lead_pos EXCEPT ![l] = "flushed"]
    /\ UNCHANGED << job_queue, worker_pos, worker_job, jobs_dropped, leads_processed >>
    /\ UNCHANGED notJob

\* enqueue_lead_processing returns (leads.py:57-60): the job was pushed
\* (enqueue_job, queue.py:40-50), or the queue is unavailable and
\* process_customer_message runs in the request, where it returns or raises.
EnqueueLead(l, queued, raised) ==
    /\ lead_pos[l] = "flushed"
    /\ IF queued
         THEN /\ job_queue' = Append(job_queue, l)
              /\ lead_pos' = [lead_pos EXCEPT ![l] = "enqueued"]
              /\ UNCHANGED leads_processed
         ELSE /\ lead_pos' = [lead_pos EXCEPT ![l] = IF raised THEN "rolled_back" ELSE "enriched"]
              /\ leads_processed' = IF raised THEN leads_processed ELSE leads_processed \cup {l}
              /\ UNCHANGED job_queue
    /\ UNCHANGED << worker_pos, worker_job, jobs_dropped >>
    /\ UNCHANGED notJob

\* await db.commit() returns (leads.py:62).
CommitLead(l) ==
    /\ lead_pos[l] \in {"enqueued", "enriched"}
    /\ lead_pos' = [lead_pos EXCEPT ![l] = "committed"]
    /\ UNCHANGED << job_queue, worker_pos, worker_job, jobs_dropped, leads_processed >>
    /\ UNCHANGED notJob

\* dequeue_job returns a job (queue.py:53-66, lead_worker.py:127-133).
DequeueJob ==
    /\ worker_pos = "dequeue"
    /\ job_queue # <<>>
    /\ worker_job' = Head(job_queue)
    /\ job_queue' = Tail(job_queue)
    /\ worker_pos' = "read"
    /\ UNCHANGED << lead_pos, jobs_dropped, leads_processed >>
    /\ UNCHANGED notJob

\* _process_lead_enrichment reads the lead in a session of its own
\* (lead_worker.py:70-75): a lead that is not found is logged and the job ends.
ReadLead ==
    /\ worker_pos = "read"
    /\ IF Visible(worker_job)
         THEN /\ worker_pos' = "process"
              /\ UNCHANGED << worker_job, jobs_dropped >>
         ELSE /\ jobs_dropped' = jobs_dropped \cup {worker_job}
              /\ worker_job' = ""
              /\ worker_pos' = "dequeue"
    /\ UNCHANGED << lead_pos, job_queue, leads_processed >>
    /\ UNCHANGED notJob

\* process_customer_message returns, or raises and the loop of the worker
\* logs the exception (lead_worker.py:77-88, 140-142).
ProcessLead(raised) ==
    /\ worker_pos = "process"
    /\ leads_processed' = IF raised THEN leads_processed ELSE leads_processed \cup {worker_job}
    /\ worker_job' = ""
    /\ worker_pos' = "dequeue"
    /\ UNCHANGED << lead_pos, job_queue, jobs_dropped >>
    /\ UNCHANGED notJob

NextJob ==
    \/ \E l \in Leads : CreateLead(l)
    \/ \E l \in Leads, queued \in BOOLEAN, raised \in BOOLEAN : EnqueueLead(l, queued, raised)
    \/ \E l \in Leads : CommitLead(l)
    \/ DequeueJob
    \/ ReadLead
    \/ \E raised \in BOOLEAN : ProcessLead(raised)

\* =========================================================================
\* Specifications
\* =========================================================================

\* calculate_quote is not called on its own: the arguments are its defaults.
QuoteIdle ==
    /\ InitQuote
    /\ quote_args = [ callout_fee |-> 80000, hourly_rate |-> 95000,
                      min_labour_hours |-> 10, estimated_hours |-> 10,
                      parts_cost |-> 0, markup_pct |-> 15, distance_km |-> 0,
                      travel_rate_per_km |-> 1500 ]

\* A call arrives; no lead request is made.
InitCallSpec ==
    /\ InitCall
    /\ InitLead
    /\ InitRegistry
    /\ InitClassify
    /\ message = "x"
    /\ ~openrouter_api_key
    /\ llm_reply.kind = "error"
    /\ QuoteIdle
    /\ RetryIdle
    /\ DistanceIdle
    /\ CacheIdle
    /\ InitWebhook
    /\ InitPhoto
    /\ InitJob

SpecCall == InitCallSpec /\ [][NextCall]_vars

\* Lead requests arrive; no call is in progress.
InitLeadSpec ==
    /\ InitCall
    /\ tradie_ctx.base_address
    /\ elevenlabs_api_key
    /\ deepgram_api_key
    /\ InitLead
    /\ InitRegistry
    /\ InitClassify
    /\ message = "x"
    /\ ~openrouter_api_key
    /\ llm_reply.kind = "error"
    /\ QuoteIdle
    /\ RetryIdle
    /\ DistanceIdle
    /\ CacheIdle
    /\ InitWebhook
    /\ InitPhoto
    /\ InitJob

SpecLead == InitLeadSpec /\ [][NextLead]_vars

\* Sockets connect and events are sent; no call and no lead request.
InitRegistrySpec ==
    /\ InitCall
    /\ tradie_ctx.base_address
    /\ elevenlabs_api_key
    /\ deepgram_api_key
    /\ InitLead
    /\ InitRegistry
    /\ InitClassify
    /\ message = "x"
    /\ ~openrouter_api_key
    /\ llm_reply.kind = "error"
    /\ QuoteIdle
    /\ RetryIdle
    /\ DistanceIdle
    /\ CacheIdle
    /\ InitWebhook
    /\ InitPhoto
    /\ InitJob

SpecRegistry == InitRegistrySpec /\ [][NextRegistry]_vars

\* One message is classified; no call, no lead request, no socket.
InitClassifySpec ==
    /\ InitCall
    /\ tradie_ctx.base_address
    /\ elevenlabs_api_key
    /\ deepgram_api_key
    /\ InitLead
    /\ InitRegistry
    /\ InitClassify
    /\ QuoteIdle
    /\ RetryIdle
    /\ DistanceIdle
    /\ CacheIdle
    /\ InitWebhook
    /\ InitPhoto
    /\ InitJob

SpecClassify == InitClassifySpec /\ [][NextClassify]_vars

\* calculate_quote is called; nothing else happens.
InitQuoteSpec ==
    /\ InitCall
    /\ tradie_ctx.base_address
    /\ elevenlabs_api_key
    /\ deepgram_api_key
    /\ InitLead
    /\ InitRegistry
    /\ InitClassify
    /\ message = "x"
    /\ ~openrouter_api_key
    /\ llm_reply.kind = "error"
    /\ InitQuote
    /\ RetryIdle
    /\ DistanceIdle
    /\ CacheIdle
    /\ InitWebhook
    /\ InitPhoto
    /\ InitJob

SpecQuote == InitQuoteSpec /\ [][NextQuote]_vars

\* retry_async is called; nothing else happens.
InitRetrySpec ==
    /\ InitCall
    /\ tradie_ctx.base_address
    /\ elevenlabs_api_key
    /\ deepgram_api_key
    /\ InitLead
    /\ InitRegistry
    /\ InitClassify
    /\ message = "x"
    /\ ~openrouter_api_key
    /\ llm_reply.kind = "error"
    /\ QuoteIdle
    /\ InitRetry
    /\ DistanceIdle
    /\ CacheIdle
    /\ InitWebhook
    /\ InitPhoto
    /\ InitJob

SpecRetry == InitRetrySpec /\ [][NextRetry]_vars

\* calculate_distance is called; nothing else happens.
InitDistanceSpec ==
    /\ InitCall
    /\ tradie_ctx.base_address
    /\ elevenlabs_api_key
    /\ deepgram_api_key
    /\ InitLead
    /\ InitRegistry
    /\ InitClassify
    /\ message = "x"
    /\ ~openrouter_api_key
    /\ llm_reply.kind = "error"
    /\ QuoteIdle
    /\ RetryIdle
    /\ InitDistance
    /\ CacheIdle
    /\ InitWebhook
    /\ InitPhoto
    /\ InitJob

SpecDistance == InitDistanceSpec /\ [][NextDistance]_vars

\* The cache operations are called; nothing else happens.
InitCacheSpec ==
    /\ InitCall
    /\ tradie_ctx.base_address
    /\ elevenlabs_api_key
    /\ deepgram_api_key
    /\ InitLead
    /\ InitRegistry
    /\ InitClassify
    /\ message = "x"
    /\ ~openrouter_api_key
    /\ llm_reply.kind = "error"
    /\ QuoteIdle
    /\ RetryIdle
    /\ DistanceIdle
    /\ InitCache
    /\ InitWebhook
    /\ InitPhoto
    /\ InitJob

SpecCache == InitCacheSpec /\ [][NextCache]_vars

\* Profiles are saved and contexts loaded by the handlers; nothing else happens.
SpecProfile == InitCacheSpec /\ [][NextProfile]_vars

\* A request arrives at the voice webhook; nothing else happens.
InitWebhookSpec ==
    /\ InitCall
    /\ tradie_ctx.base_address
    /\ elevenlabs_api_key
    /\ deepgram_api_key
    /\ InitLead
    /\ InitRegistry
    /\ InitClassify
    /\ message = "x"
    /\ ~openrouter_api_key
    /\ llm_reply.kind = "error"
    /\ QuoteIdle
    /\ RetryIdle
    /\ DistanceIdle
    /\ CacheIdle
    /\ wh_pos = "form"
    /\ wh_form \in [parsed : BOOLEAN, recording : BOOLEAN, to : BOOLEAN]
    /\ wh_ctx = <<>>
    /\ wh_heard = ""
    /\ wh_suburb = ""
    /\ wh_sms = ""
    /\ wh_published = FALSE
    /\ wh_response = ""
    /\ InitPhoto
    /\ InitJob

SpecWebhook == InitWebhookSpec /\ [][NextWebhook]_vars

\* Photos are uploaded; nothing else happens.
InitPhotoSpec ==
    /\ InitCall
    /\ tradie_ctx.base_address
    /\ elevenlabs_api_key
    /\ deepgram_api_key
    /\ InitLead
    /\ InitRegistry
    /\ InitClassify
    /\ message = "x"
    /\ ~openrouter_api_key
    /\ llm_reply.kind = "error"
    /\ QuoteIdle
    /\ RetryIdle
    /\ DistanceIdle
    /\ CacheIdle
    /\ InitWebhook
    /\ InitPhoto
    /\ InitJob

SpecPhoto == InitPhotoSpec /\ [][NextPhoto]_vars

\* Leads are created while the worker runs; nothing else happens.
SpecJob == InitPhotoSpec /\ [][NextJob]_vars




\* =========================================================================
\* Claims
\* =========================================================================

\* ------------------------------------------------------- call session claims

RECURSIVE SumConf(_)
SumConf(frags) ==
    IF frags = <<>> THEN 0 ELSE Head(frags).conf + SumConf(Tail(frags))

\* The fragments of an utterance average below 0.30.
LowUtterance(frags) ==
    frags # <<>> /\ SumConf(frags) < LowConfidence * Len(frags)

\* A pass of _process_and_respond is in progress.
PassInProgress ==
    \/ sender_task \in {"classify", "distance", "sms_wait"}
    \/ sender_task = "tts" /\ tts_ctx \in {"repeat", "decline", "ack"}

\* C1 (confidence gate). While an utterance whose final fragments average below
\* 0.30 is processed, and the session's average confidence was below 0.30 when
\* its processing began, the classifier is not invoked for it: the pass does
\* nothing but speak the repeat prompt.
C1_ConfidenceGate ==
    (PassInProgress /\ gate_low /\ LowUtterance(transcript))
        => (sender_task = "tts" /\ tts_ctx = "repeat")

C8_BargeIn ==
    [][barged => ~(audio_out' > audio_out)]_vars

\* C9 (recognizer closed on every exit path). When the handler has returned,
\* close has been called on every recognizer it created.
C9_RecognizerClosed ==
    handler = "done"
        => \A i \in 1..Len(recognizers) : recognizers[i] = "closed"

\* ------------------------------------------------------- lead lifecycle claims

\* C2 (service-area gate). A lead whose resolved distance_km is greater than the
\* business's service_radius_km has no quote and a status that never reached
\* PRICING: it is NEW or DETAILS_COLLECTED.
C2_ServiceAreaGate ==
    \A i \in 1..Len(lead_sessions) :
        LET lead == lead_sessions[i] IN
        (lead.distance_km # <<>> /\ lead.distance_km[1] > Profile.service_radius_km)
            => /\ lead.status \in {"new", "details_collected"}
               /\ lead.quote_total = <<>>
               /\ lead.quote_snapshot = <<>>

\* The place of a status in the order NEW, DETAILS_COLLECTED, MEDIA_PENDING,
\* PRICING, TRADIE_REVIEW, CONFIRMED, BOOKED.
StatusOrder ==
    << "new", "details_collected", "media_pending", "pricing", "tradie_review",
       "confirmed", "booked" >>

StatusRank(status) ==
    CHOOSE k \in 1..Len(StatusOrder) : StatusOrder[k] = status

Ordered(status) == \E k \in 1..Len(StatusOrder) : StatusOrder[k] = status

\* C4 (status monotonicity). No step moves the status of a lead backward in the
\* order NEW .. BOOKED; staying in place (the TRADIE_REVIEW edit loop) is allowed.
C4_StatusMonotone ==
    [][ (/\ lead_sessions # <<>>
         /\ lead_sessions' # <<>>
         /\ Ordered(lead_sessions[1].status)
         /\ Ordered(lead_sessions'[1].status))
        => StatusRank(lead_sessions'[1].status) >= StatusRank(lead_sessions[1].status)
      ]_vars

\* C5 (REJECTED is terminal). A decision submitted for a lead that is REJECTED
\* is answered with an authorization or conflict status and leaves the lead as
\* it was.
C5_RejectedTerminal ==
    [][ (/\ lead_sessions # <<>>
         /\ lead_sessions[1].status = "rejected"
         /\ requests' # requests
         /\ last_request' = "decision")
        => /\ last_response' \in {"403", "409"}
           /\ lead_sessions' = lead_sessions
      ]_vars

\* C6 (decisions of non-owners have no effect). Every lead_decided event that
\* was broadcast names the owner of the lead as the one who decided.
C6_OnlyOwnerDecides ==
    \A i \in 1..Len(lead_sessions) : \A e \in lead_decided :
        e.decided_by = lead_sessions[i].user_profile_id

\* C10 (quote total is the sum of the line items). A lead's quote_total, when
\* set and not overridden by a tradie edit, equals the sum of the totals of the
\* QuoteLineItem rows persisted for the lead.
C10_QuoteTotalIsSum ==
    \A i \in 1..Len(lead_sessions) :
        LET lead == lead_sessions[i] IN
        (lead.quote_total # <<>> /\ lead.tradie_edited_quote = <<>>)
            => lead.quote_total[1] = SumTotals(quote_line_items)


\* C11 (BOOKED needs both booking fields). An approve decision applied to a
\* lead gives BOOKED exactly when both a date and a time slot are supplied and
\* CONFIRMED otherwise, and every lead whose status is BOOKED has both
\* booked_date and booked_time_slot set.
C11_BookedHasDateAndSlot ==
    \A i \in 1..Len(lead_sessions) :
        LET lead == lead_sessions[i] IN
        /\ \A d \in Decisions :
              d.decision = "approve" =>
                handle_tradie_decision(lead, d).status =
                  (IF d.booked_date /\ d.booked_time_slot THEN "booked" ELSE "confirmed")
        /\ lead.status = "booked" => (lead.booked_date /\ lead.booked_time_slot)

\* C11 witnesses: a lead the owner approved with a date and a time slot.
C11_Witness ==
    /\ lead_sessions # <<>>
    /\ lead_sessions[1].status = "booked"
    /\ lead_sessions[1].tradie_decision = "approve"
    /\ last_request = "decision"
    /\ last_response = "200"


\* ---------------------------------------------------------- classifier claims

\* The classification in classify_result came from a keyword classifier.
UsedFallback ==
    /\ classify_result # <<>>
    /\ \/ ~openrouter_api_key
       \/ llm_reply.kind \in {"error", "not_json"}
       \/ /\ classify_path \in {"classify_lead", "_safe_classify"}
          /\ (llm_reply.kind = "list" \/ llm_reply.job_type = "")

\* Messages with no keyword of either classifier.
PlainTexts == { "Hello there", "x" }

\* C12 (fallback totality). A classification made by a keyword classifier has
\* a job_type of the closed set and an urgency of UrgencyLevel, and for a
\* message with no keyword it is general_plumbing and flexible.
C12_FallbackTotality ==
    UsedFallback =>
        /\ classify_result[1].job_type \in JobTypeSet
        /\ classify_result[1].urgency \in UrgencyLevel
        /\ message \in PlainTexts =>
             /\ classify_result[1].job_type = "general_plumbing"
             /\ classify_result[1].urgency = "flexible"

\* The provider answered with an object that names a job type.
LlmAnswered ==
    /\ classify_result # <<>>
    /\ openrouter_api_key
    /\ llm_reply.kind = "dict"
    /\ llm_reply.job_type # ""

\* C13 (LLM answers are confined to the closed sets). When the provider has
\* answered, the classification has a job_type of the closed set and an
\* urgency of UrgencyLevel, and so has the lead the message made.
C13_LlmAnswerValidated ==
    LlmAnswered =>
        /\ classify_result[1].job_type \in JobTypeSet
        /\ classify_result[1].urgency \in UrgencyLevel
        /\ (message_lead # <<>> /\ ~message_lead[1].raised) =>
             /\ message_lead[1].lead.job_type \in JobTypeSet
             /\ message_lead[1].lead.urgency \in UrgencyLevel

\* The categories of the QuoteLineItem rows.
Categories(rows) == { rows[k].category : k \in 1..Len(rows) }

\* C14 (emergency burst pipe). The lead made from the burst-pipe message by the
\* keyword classifier, 8 km from the base, has urgency emergency and job type
\* pipe_burst, a quote with callout, labour, travel and gst rows, and status
\* TRADIE_REVIEW.
C14_BurstPipeScenario ==
    (/\ message_lead # <<>>
     /\ UsedFallback
     /\ message = "burst pipe, water everywhere, 8 Example St"
     /\ message_lead[1].lead.distance_km = << 8 >>)
        => /\ ~message_lead[1].raised
           /\ message_lead[1].lead.urgency = "emergency"
           /\ message_lead[1].lead.job_type = "pipe_burst"
           /\ {"callout", "labour", "travel", "gst"} \subseteq Categories(message_lead[1].rows)
           /\ message_lead[1].lead.quote_total # <<>>
           /\ message_lead[1].lead.status = "tradie_review"


\* C29 (retry once, then fall back). A classification that asked the provider
\* and returned the keyword classifier's result made two requests to the
\* provider: the first and one retry.
C29_RetryOnceThenFallback ==
    (UsedFallback /\ openrouter_api_key) => llm_calls = 2


\* ------------------------------------------------------- quote engine claims

\* The rows of a breakdown other than the GST row.
RECURSIVE NonGst(_)
NonGst(items) ==
    IF items = <<>> THEN <<>>
    ELSE (IF Head(items).category = "gst" THEN <<>> ELSE << Head(items) >>)
           \o NonGst(Tail(items))

\* C15 (quote determinism and consistency). All calls of calculate_quote with
\* the same arguments return the same breakdown, and in every breakdown
\* subtotal + gst = total and subtotal is the sum of the totals of the rows
\* other than GST.
C15_QuoteConsistent ==
    \A i, j \in 1..Len(quote_calls) :
        /\ quote_calls[i] = quote_calls[j]
        /\ quote_calls[i].subtotal + quote_calls[i].gst = quote_calls[i].total
        /\ quote_calls[i].subtotal = SumTotals(NonGst(quote_calls[i].line_items))


\* The row of a breakdown with the given category, in a sequence of at most one.
RowsOf(items, category) ==
    SelectSeq(items, LAMBDA row : row.category = category)

\* C30 (rounding at each line). Every row of a breakdown has a total that is a
\* whole number of cents; the labour total is max(min hours, estimated hours)
\* x hourly rate rounded to cents; subtotal is the sum of the rows other than
\* GST, GST is 10% of the subtotal rounded to cents, and total is their sum.
C30_EveryLineRounded ==
    \A i \in 1..Len(quote_calls) :
        LET q == quote_calls[i]
            hours == IF quote_args.min_labour_hours > quote_args.estimated_hours
                       THEN quote_args.min_labour_hours
                       ELSE quote_args.estimated_hours
        IN  /\ \A k \in 1..Len(q.line_items) : q.line_items[k].total % 10 = 0
            /\ RowsOf(q.line_items, "labour")[1].total =
                 Round2(hours * quote_args.hourly_rate, 10)
            /\ q.subtotal = SumTotals(NonGst(q.line_items))
            /\ q.gst = Round2(q.subtotal, 10)
            /\ q.total = q.subtotal + q.gst


\* ----------------------------------------------------- spoken-response claims

\* C19 (the caller always hears a complete response). Whenever a spoken
\* response of a call that is still up has ended (the greeting, the request to
\* repeat, the decline or the acknowledgment), all of its audio was sent to the
\* caller.
C19_CallerHearsCompleteResponse ==
    (~cancel_requested /\ tts_ctx # "none" /\ sender_task # "tts")
        => audio_out = TtsChunks

\* The recognizer of the call could not be opened at a start event: connect()
\* raised, or returned without a connection for want of an API key.
RecognizerNotOpened ==
    \/ exit_path = "connect_error"
    \/ ~deepgram_api_key /\ recognizers # <<>>

\* C20 (unrecoverable call). A call whose recognizer could not be opened has,
\* when its handler is done, spoken an apology to the caller in full, and no
\* lead was classified or broadcast for it.
C20_UnrecoverableCallApology ==
    (handler = "done" /\ RecognizerNotOpened)
        => /\ tts_ctx = "apology"
           /\ audio_out = TtsChunks
           /\ classification = <<>>
           /\ broadcasts = 0


\* ------------------------------------------------------- sequencing claims

\* C24 (utterance processing is sequential). A pass of _process_and_respond
\* begins, and the classifier is called, only in a step taken while no pass of
\* the call is in progress.
C24_PassesSequential ==
    [][(classifier_calls' # classifier_calls \/ (transcript' # transcript /\ transcript' # <<>>))
         => ~PassInProgress]_vars

\* C24 witnesses: an utterance end queued a second pass while the classifier
\* call of the first is awaited.
C24_Witness ==
    /\ sender_task = "classify"
    /\ \E i \in 1..Len(response_queue) : response_queue[i].action = "process"


\* C25 (closing the socket does not cancel a dispatched classification). The
\* sender task is never cancelled while it awaits the classifier: a pass that
\* called the classifier goes on to store the classification.
C25_ClassificationNotCancelled ==
    [][sender_task = "classify" => sender_task' # "cancelled"]_vars


\* ---------------------------------------------------------------- cache claims

\* C21 (the cache absent). An operation called while the cache is disabled or
\* its server does not answer raises nothing and leaves the cached rows as they
\* were; a read returns a miss; load_tradie_context returns the context the
\* store holds, whenever the store can be read.
C21_CacheAbsentIsDirectRead ==
    (cache_last # <<>> /\ cache_last[1].absent)
        => /\ ~cache_last[1].raised
           /\ ~cache_last[1].changed
           /\ cache_last[1].op = "get" => cache_last[1].value = <<>>
           /\ (cache_last[1].op = "load" /\ cache_last[1].db_ok)
                => cache_last[1].value = cache_last[1].store

\* C21 witnesses: the server stopped answering after a context was cached and
\* the profile was saved again; load_tradie_context returns the context of the
\* store, not the cached one.
C21_Witness ==
    /\ cache_last # <<>>
    /\ cache_last[1].op = "load"
    /\ cache_last[1].absent
    /\ redis_enabled
    /\ redis_client
    /\ cache_rows[cache_last[1].key] # <<>>
    /\ cache_rows[cache_last[1].key] # cache_last[1].value
    /\ cache_last[1].value = cache_last[1].store


\* -------------------------------------------------------------- webhook claims

C26_ReviewHasQuote ==
    \A i \in 1..Len(lead_sessions) :
        lead_sessions[i].status = "tradie_review"
            => /\ lead_sessions[i].quote_snapshot # <<>>
               /\ lead_sessions[i].quote_total # <<>>
               /\ {"callout", "labour", "gst"} \subseteq Categories(quote_line_items)


\* s is a proper extension of r that leaves the entries of r as they were.
ExtendedBy(r, s) == Len(s) > Len(r) /\ SubSeq(s, 1, Len(r)) = r

\* C27 (every transition is logged). A step that changes the status of the
\* stored lead appends to its conversation, and no step removes or rewrites an
\* entry of the conversation.
C27_TransitionsLogged ==
    [][(lead_sessions # <<>> /\ lead_sessions' # <<>>)
         => LET before == lead_sessions[1]
                after == lead_sessions'[1]
            IN  /\ after.status # before.status
                     => ExtendedBy(before.conversation, after.conversation)
                /\ \/ after.conversation = before.conversation
                   \/ ExtendedBy(before.conversation, after.conversation)]_vars


\* C28 (quote edit). A step that stores an edited quote on a lead in
\* TRADIE_REVIEW is an edit decision: it makes quote_total the edited total,
\* leaves the status TRADIE_REVIEW, and leaves the quote snapshot and the
\* line items as they were.
C28_QuoteEdit ==
    [][(/\ lead_sessions # <<>>
        /\ lead_sessions' # <<>>
        /\ lead_sessions[1].status = "tradie_review"
        /\ lead_sessions'[1].tradie_edited_quote # lead_sessions[1].tradie_edited_quote)
         => /\ lead_sessions'[1].tradie_decision = "edit"
            /\ lead_sessions'[1].tradie_edited_quote \in EditedQuotes \ {<<>>}
            /\ lead_sessions'[1].quote_total = lead_sessions'[1].tradie_edited_quote
            /\ lead_sessions'[1].status = "tradie_review"
            /\ lead_sessions'[1].quote_snapshot = lead_sessions[1].quote_snapshot
            /\ quote_line_items' = quote_line_items]_vars

\* C28 witnesses: the edit of a quoted lead was stored; the snapshot keeps the
\* total the engine computed.
C28_Witness ==
    /\ lead_sessions # <<>>
    /\ last_request = "decision"
    /\ lead_sessions[1].status = "tradie_review"
    /\ lead_sessions[1].tradie_decision = "edit"
    /\ lead_sessions[1].tradie_edited_quote # <<>>
    /\ lead_sessions[1].quote_total = lead_sessions[1].tradie_edited_quote
    /\ lead_sessions[1].quote_snapshot # <<>>
    /\ << lead_sessions[1].quote_snapshot[1].total >> # lead_sessions[1].quote_total
    /\ quote_line_items # <<>>


\* ------------------------------------------------------------- retry claims

\* The exception is an instance of a class of retryable_exceptions.
IsRetryable(exc) ==
    \E c \in retry_on : c = exc \/ c = "Exception" \/ (c = "ValueError" /\ exc = "UnicodeError")

\* C17 (retry until success or max_attempts). fn is called once per attempt and
\* never more than max_attempts times; the first success is returned at once;
\* after max_attempts retryable failures the last exception is raised, fn
\* having been called exactly max_attempts times.
C17_RetryUntilSuccessOrMax ==
    /\ retry_calls <= retry_max
    /\ retry_pos = "call" => retry_calls = attempt
    /\ retry_pos = "sleep" => retry_calls = attempt + 1
    /\ retry_pos = "returned" => retry_calls = attempt + 1
    /\ (retry_pos = "raised" /\ IsRetryable(retry_raised))
         => /\ retry_calls = retry_max
            /\ retry_raised = last_exc

\* C17 witnesses: three retryable failures of a call with max_attempts = 3.
C17_Witness ==
    /\ retry_pos = "raised"
    /\ retry_max = 3
    /\ IsRetryable(retry_raised)
    /\ retry_calls = 3

\* C18 (non-retryable exceptions are not retried). The call sleeps for another
\* attempt only after an exception that is an instance of retryable_exceptions;
\* any other exception is raised by the call that met it, at once: after
\* exactly one call of fn when it is the first that fn raised.
C18_NonRetryablePropagates ==
    /\ retry_pos = "sleep" => IsRetryable(last_exc)
    /\ (retry_pos = "raised" /\ ~IsRetryable(retry_raised))
         => /\ retry_calls = attempt + 1
            /\ last_exc = "" => retry_calls = 1

\* C18 witnesses: a TypeError from the first call of fn, with max_attempts = 3
\* and retryable_exceptions = (ValueError,).
C18_Witness ==
    /\ retry_pos = "raised"
    /\ retry_max = 3
    /\ retry_on = {"ValueError"}
    /\ retry_raised = "TypeError"
    /\ retry_calls = 1

\* ---------------------------------------------------------- distance claims

\* C16 (calculate_distance fails only without a usable distance). A call that
\* raised had not geocoded both endpoints: once both are geocoded the call
\* returns a result, whatever the router does.
C16_DistanceFailsOnlyUnresolved ==
    distance_pos = "raised" => geocoded < 2


\* ------------------------------------------------------------ registry claims

\* s is an initial part of t.
IsPrefix(s, t) == Len(s) <= Len(t) /\ SubSeq(t, 1, Len(s)) = s

\* The sender task returns from the repeat prompt of a low-confidence pass.
RepeatPassReturns ==
    sender_task = "tts" /\ tts_ctx = "repeat" /\ sender_task' = "idle"

\* C32: after a low-confidence pass has spoken the repeat prompt the
\* accumulated transcript, the confidence sum and the confidence count are all
\* cleared, and the next pass is judged only on fragments received after that:
\* the transcript a pass works on is an initial part of what has accumulated
\* since the last reset.
C32_LowConfidenceReset ==
    [][/\ RepeatPassReturns =>
            (final_transcript' = <<>> /\ confidence_sum' = 0 /\ confidence_count' = 0)
       /\ PassInProgress' => IsPrefix(transcript', final_transcript')]_vars

\* C33: a call classifies at most once and dispatches the photo-link SMS at
\* most once, also when several utterance-end signals arrive before the first
\* one has been processed.
C33_OneSmsOneClassification ==
    sms_sent <= 1 /\ classifier_calls <= 1

\* The parts of the text of every key of an event.
TextParts(event) ==
    { event.error[i] : i \in DOMAIN event.error }
      \cup { event.visionSummary[i] : i \in DOMAIN event.visionSummary }

\* C34: no event delivered to owner-facing clients contains internal provider
\* error detail: when photo analysis fails the broadcast event carries the
\* coarse status analysis_failed and no exception text.
C34_NoErrorDetailInEvents ==
    \A i \in DOMAIN photo_events : TextParts(photo_events[i]) \cap AnalysisErrors = {}

\* C35: the cached profile is invalidated when the profile is written, so
\* load_tradie_context never returns a snapshot cached before the last write:
\* what it returns is the context of the profile row as the store holds it
\* (or the default context when there is no row or the store cannot be read).
C35_NoStaleContext ==
    (cache_last # <<>> /\ cache_last[1].op = "load" /\ cache_last[1].value # <<>>)
        => cache_last[1].value[1] \in {cache_last[1].store[1], default_context}

\* C36: every enqueued enrichment job finds its lead, whichever way the
\* request (create lead, enqueue job, commit) and the worker (dequeue job, read
\* the lead) interleave: no job of a lead that the request commits is dropped
\* because the lead was not yet visible.
C36_JobFindsLead ==
    \A l \in Leads : ~(l \in jobs_dropped /\ Visible(l))

\* C37: final fragments that arrive while the repeat prompt of a
\* low-confidence pass is being spoken are retained: the reset after the prompt
\* clears the fragments that were judged and keeps those received since the
\* prompt began.
C37_FragmentsDuringPromptKept ==
    [][RepeatPassReturns =>
         final_transcript' = SubSeq(final_transcript, tts_mark + 1, Len(final_transcript))]_vars

\* The recognizers whose connection is open.
OpenRecognizers(recs) == { i \in 1..Len(recs) : recs[i] = "open" }

\* The step puts a greeting on the response queue.
GreetingQueued ==
    /\ Len(response_queue') = Len(response_queue) + 1
    /\ response_queue'[Len(response_queue')].action = "speak"

\* C38: a call has at most one open recognizer connection at any time, every
\* recognizer connection opened during the call is closed when the handler has
\* returned, also after more than one 'start' event on the socket, and the
\* greeting is queued at most once.
C38_OneRecognizerOneGreeting ==
    [][/\ Cardinality(OpenRecognizers(recognizers')) <= 1
       /\ handler' = "done" => OpenRecognizers(recognizers') = {}
       /\ GreetingQueued => ~greeting_sent]_vars

\* C39: while the audio stream is open the response sender keeps consuming,
\* however long the caller stays silent, so every action put on the response
\* queue is handled: there is no state in which the stream is open, the sender
\* has stopped and an action is waiting on the queue.
C39_QueuedActionsHandled ==
    ~cancel_requested => ~(sender_task \in SenderTerminal /\ response_queue # <<>>)

\* C31: the distance and photo-analysis providers are retried only after a
\* transient transport failure or a 5xx response, never after a 4xx response:
\* once the provider has answered with a 4xx status it is not called again.
\* Both integrations pass retry_async the same max_attempts and
\* retryable_exceptions (distance.py:73-79, vision.py:74-80).
C31_ClientErrorNotRetried ==
    [][(fn_status >= 400 /\ fn_status < 500) => retry_calls' = retry_calls]_vars

\* The sockets whose send raised in the call in progress.
DeadSockets == { dead_conns[k][2] : k \in 1..Len(dead_conns) }

\* C7 (broadcast isolation). When a call of send_to_tradie or broadcast_all has
\* ended, every socket it was to reach that is still registered has received
\* the event, and the only sockets it was to reach that are no longer
\* registered are those whose send failed and those whose own handler ended.
C7_BroadcastIsolation ==
    task_op \in {"returned", "raised"} =>
        \A ws \in targets :
            IF ws \in Registered(connections)
              THEN ws \in delivered
              ELSE ws \in DeadSockets \/ sockets[ws] = "closed"

\* C23 (safe under concurrent add, remove and iterate). A call of send_to_tradie
\* or broadcast_all that connects and disconnects interleave with does not end
\* by an exception, and when it has returned no socket that was registered
\* when it began and is registered still was passed over.
C23_ConcurrentRegistrySafe ==
    /\ task_op # "raised"
    /\ task_op = "returned" => (targets \cap Registered(connections)) \subseteq delivered


\* No key of the dict maps to an empty list.
NoEmptyKey(conn) == \A p \in 1..Len(conn) : conn[p].live => conn[p].conns # <<>>

\* A step of a call of send_to_tradie that is in progress: a send has ended.
SendToOwnerStep ==
    task_op = "send" /\ (delivered' # delivered \/ dead_conns' # dead_conns)

\* C40: in every reachable state of the registry no key maps to an empty list
\* and active_count is the number of registered sockets; disconnecting a socket
\* that is not registered under the key leaves the registry as it is; and a
\* send to one owner delivers to no socket of another owner and removes none.
C40_RegistryWellFormed ==
    [][/\ NoEmptyKey(connections')
       /\ active_count(connections') = Cardinality(Registered(connections'))
       /\ \A ws \in Sockets, t \in Tradies :
             ws \notin RegisteredFor(connections', t)
                => disconnect(connections', t, ws) = connections'
       /\ SendToOwnerStep =>
             LET owner == connections[task_pos].tradie_id IN
               /\ \A ws \in delivered' : TradieOf(ws) = owner
               /\ \A t \in Tradies \ {owner} :
                     RegisteredFor(connections', t) = RegisteredFor(connections, t)]_vars

\* C40 witnesses: a send to alice has reached her first socket and is at her
\* second, which her handler has disconnected in the meantime, while a socket
\* of bob is registered: the cleanup of the send will disconnect a socket that
\* is no longer registered.
C40_Witness ==
    /\ task_op = "send"
    /\ delivered = {"s1"}
    /\ task_ws = "s2"
    /\ sockets["s2"] = "closed"
    /\ "s3" \in Registered(connections)
    /\ active_count(connections) = 2

====
